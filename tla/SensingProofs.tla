--------------------------- MODULE SensingProofs ---------------------------
(***************************************************************************)
(* Proofs about the sensor side of the costmaps, for every number of       *)
(* sources, cells and voxels: a buffer drops what is stale and, as long as *)
(* its clouds come in order, nothing else; silence has a cause; the voxel  *)
(* decay layer and the master grid agree on the obstacles; the range       *)
(* sensor's beliefs and the voxel columns agree with the costs; and the    *)
(* updates of bounds alone leave in the master grid what updates of all    *)
(* cells would, with every obstacle at its place.                          *)
(***************************************************************************)
EXTENDS Sensing, SequenceTheorems, FiniteSetTheorems, WellFoundedInduction, TLAPS

(* A set of natural numbers has a least one.                                *)
LEMMA LeastExists ==
  ASSUME NEW T, T \subseteq Nat, T # {}
  PROVE  \E m \in T : \A k \in T : m <= k
<1>1. PICK m \in T : \A k \in T : ~(<<k, m>> \in OpToRel(<, Nat))
  BY NatLessThanWellFounded, WFMin
<1>2. ASSUME NEW k \in T PROVE m <= k
  <2>1. m \in Nat /\ k \in Nat /\ ~(<<k, m>> \in OpToRel(<, Nat))
    BY <1>1
  <2>2. ~(k < m)
    BY <2>1 DEF OpToRel
  <2>. QED
    BY <1>2, <2>2
<1>. QED
  BY <1>2

(* What is left of the readings of a buffer: the first ones, up to the      *)
(* first that is stale.                                                     *)
LEMMA PurgeKeepsFirst ==
  ASSUME NEW S, NEW l \in Seq(S), \A r \in S : r.stamp \in Int, NEW keep \in Nat, NEW t \in Int
  PROVE  LET left == O!PurgeStaleObservations(l, keep, t)
         IN /\ left \in Seq(S) /\ Len(left) <= Len(l)
            /\ \A i \in 1..Len(left) : left[i] = l[i]
            /\ keep > 0 => \A i \in 1..Len(left) : t - l[i].stamp <= keep
            /\ keep > 0 /\ Len(left) < Len(l) => t - l[Len(left) + 1].stamp > keep
<1> DEFINE left == O!PurgeStaleObservations(l, keep, t)
           old == {i \in DOMAIN l : t - l[i].stamp > keep}
           first == CHOOSE i \in old : \A k \in old : i <= k
<1>1. \A i \in 1..Len(l) : l[i] \in S /\ l[i].stamp \in Int
  BY ElementOfSeq
<1>2. CASE l = <<>>
  <2>1. left = <<>> /\ Len(<<>>) = 0
    BY <1>2, EmptySeq DEF O!PurgeStaleObservations
  <2>2. left \in Seq(S) /\ Len(left) = 0 /\ Len(l) = 0
    BY <1>2, <2>1
  <2>. HIDE DEF left
  <2>. QED
    BY <2>2 DEF left
<1>3. CASE l # <<>> /\ keep = 0
  <2>1. left = <<Head(l)>>
    BY <1>3 DEF O!PurgeStaleObservations
  <2>2. Head(l) = l[1] /\ l[1] \in S /\ Len(l) >= 1
    BY <1>3
  <2>3. left \in Seq(S) /\ Len(left) = 1 /\ left[1] = l[1]
    BY <2>1, <2>2
  <2>. HIDE DEF left
  <2>. QED
    BY <1>3, <2>2, <2>3 DEF left
<1>4. CASE l # <<>> /\ keep # 0 /\ old = {}
  <2>1. left = l
    BY <1>4 DEF O!PurgeStaleObservations
  <2>2. \A i \in 1..Len(l) : t - l[i].stamp <= keep
    BY <1>1, <1>4
  <2>. HIDE DEF left, old
  <2>. QED
    BY <2>1, <2>2 DEF left
<1>5. CASE l # <<>> /\ keep # 0 /\ old # {}
  <2>1. left = SubSeq(l, 1, first - 1)
    BY <1>5, Zenon DEF O!PurgeStaleObservations
  <2>2. first \in old /\ \A k \in old : first <= k
    <3>1. old \subseteq Nat
      OBVIOUS
    <3>2. \E m \in old : \A k \in old : m <= k
      BY <1>5, <3>1, LeastExists
    <3>. HIDE DEF old
    <3>. QED
      BY <3>2
  <2>3. first \in 1..Len(l) /\ t - l[first].stamp > keep
    BY <2>2
  <2>4. \A i \in 1..first - 1 : t - l[i].stamp <= keep
    <3> SUFFICES ASSUME NEW i \in 1..first - 1 PROVE t - l[i].stamp <= keep
      OBVIOUS
    <3>1. i \in DOMAIN l /\ i < first /\ l[i].stamp \in Int
      <4>. HIDE DEF first
      <4>. QED
        BY <1>1, <2>3
    <3>2. i \notin old
      <4>. HIDE DEF old, first
      <4>. QED
        BY <2>2, <2>3, <3>1
    <3>. QED
      BY <3>1, <3>2
  <2>. HIDE DEF left, old, first
  <2>5. /\ left \in Seq(S) /\ Len(left) = first - 1
        /\ \A i \in 1..first - 1 : left[i] = l[i]
    <3>1. \A i \in 1..first - 1 : l[i] \in S
      BY <1>1, <2>3
    <3>2. 1 \in Int /\ first - 1 \in Int
      BY <2>3
    <3>. QED
      BY <2>1, <2>3, <3>1, <3>2, SubSeqProperties
  <2>. QED
    BY <1>5, <2>3, <2>4, <2>5 DEF left
<1>. QED
  BY <1>2, <1>3, <1>4, <1>5

-----------------------------------------------------------------------------
(* The sources of the obstacle layer.  A buffer holds clouds of its source, *)
(* the newest first unless one arrived late, and the time of its last       *)
(* update is that of the last sign of life.                                 *)
Scan == [source : O_Sources, stamp : Int]

ScanBuffer == [list : Seq(Scan), updated : Int]

NewestFirst(l) == \A i, j \in 1..Len(l) : i <= j => l[j].stamp <= l[i].stamp

OwnScans(l, s) == \A i \in 1..Len(l) : l[i].source = s

OType ==
  /\ conf \in [O_Sources -> O_Confs] /\ now \in Nat /\ inFlight \subseteq O_Sources \X Int
  /\ late \in BOOLEAN /\ buffer \in [O_Sources -> ScanBuffer] /\ born \in [O_Sources -> Int]

OBuffers ==
  \A s \in O_Sources : /\ OwnScans(buffer[s].list, s) /\ (~late => NewestFirst(buffer[s].list))
                       /\ buffer[s].updated = born[s]

OInv == OType /\ OBuffers

(* What is read of one buffer: only what is fresh, and all of that when the *)
(* newest is first.                                                         *)
PurgeKeeps(left, l, s, keep, t) ==
  /\ left \in Seq(Scan) /\ OwnScans(left, s)
  /\ keep > 0 => \A i \in 1..Len(left) : t - left[i].stamp <= keep
  /\ NewestFirst(l) =>
       /\ NewestFirst(left)
       /\ keep > 0 => \A i \in 1..Len(l) :
            t - l[i].stamp <= keep => \E j \in 1..Len(left) : left[j] = l[i]

LEMMA PurgeScans ==
  ASSUME NEW s \in O_Sources, NEW l \in Seq(Scan), OwnScans(l, s), NEW keep \in Nat, NEW t \in Int
  PROVE  PurgeKeeps(O!PurgeStaleObservations(l, keep, t), l, s, keep, t)
<1> DEFINE left == O!PurgeStaleObservations(l, keep, t)
<1>1. /\ left \in Seq(Scan) /\ Len(left) <= Len(l)
      /\ \A i \in 1..Len(left) : left[i] = l[i]
      /\ keep > 0 => \A i \in 1..Len(left) : t - l[i].stamp <= keep
      /\ keep > 0 /\ Len(left) < Len(l) => t - l[Len(left) + 1].stamp > keep
  <2>1. \A r \in Scan : r.stamp \in Int
    BY DEF Scan
  <2>. QED
    BY <2>1, PurgeKeepsFirst
<1>. HIDE DEF left
<1>2. Len(left) \in Nat /\ Len(l) \in Nat
  BY <1>1, LenProperties
<1>3. OwnScans(left, s)
  BY <1>1, <1>2 DEF OwnScans
<1>4. keep > 0 => \A i \in 1..Len(left) : t - left[i].stamp <= keep
  BY <1>1
<1>5. NewestFirst(l) => NewestFirst(left)
  BY <1>1, <1>2 DEF NewestFirst
<1>6. ASSUME NewestFirst(l), keep > 0, NEW i \in 1..Len(l), t - l[i].stamp <= keep
      PROVE  \E j \in 1..Len(left) : left[j] = l[i]
  <2>1. CASE i <= Len(left)
    BY <1>1, <1>2, <2>1
  <2>2. CASE i > Len(left)
    <3>1. Len(left) + 1 \in 1..Len(l) /\ Len(left) + 1 <= i
      BY <1>2, <2>2
    <3>2. l[i].stamp <= l[Len(left) + 1].stamp /\ t - l[Len(left) + 1].stamp > keep
      BY <1>1, <1>2, <1>6, <3>1 DEF NewestFirst
    <3>3. l[i].stamp \in Int /\ l[Len(left) + 1].stamp \in Int
      <4>1. l[i] \in Scan /\ l[Len(left) + 1] \in Scan
        BY <3>1, ElementOfSeq
      <4>. QED
        BY <4>1 DEF Scan
    <3>. QED
      BY <1>6, <3>2, <3>3
  <2>. QED
    BY <1>2, <2>1, <2>2
<1>. QED
  BY <1>1, <1>3, <1>4, <1>5, <1>6 DEF left, PurgeKeeps

(* The sources are configured as their assumption says.                     *)
LEMMA ConfOfSource ==
  ASSUME OType, NEW s \in O_Sources
  PROVE  conf[s].keep \in Nat /\ conf[s].rate \in Nat
<1>1. conf[s] \in O_Confs
  BY DEF OType
<1>2. conf[s] \in [type : {"scan", "inf", "cloud"}, keep : Nat, rate : Nat,
                    marking : BOOLEAN, clearing : BOOLEAN]
  BY <1>1, ObstacleAssumption
<1>. QED
  BY <1>2

(* An update reads some of the buffers.                                     *)
LEMMA ReadOK ==
  ASSUME OInv, NEW Q \in SUBSET O_Sources, buffer' = O!Read(Q), UNCHANGED <<conf, now, inFlight, born, late>>
  PROVE  /\ OInv' /\ O!FreshKeptStep
         /\ \A r \in O!ReadingsOf(buffer', Q) : O!Lasting(r.source) => O!Fresh(r)
         /\ ~O!AllCurrent(buffer', Q) =>
              \E s \in O_Sources : conf[s].rate > 0 /\ now - born[s] > conf[s].rate
<1> DEFINE Left(s) == O!PurgeStaleObservations(buffer[s].list, conf[s].keep, now)
<1> USE DEF OInv
<1>1. \A s \in O_Sources : /\ buffer[s] \in ScanBuffer /\ buffer[s].list \in Seq(Scan)
                           /\ buffer[s].updated \in Int /\ OwnScans(buffer[s].list, s)
                           /\ conf[s].keep \in Nat /\ conf[s].rate \in Nat
  BY ConfOfSource DEF OType, OBuffers, ScanBuffer
<1>2. now \in Int
  BY DEF OType
<1>3. ASSUME NEW s \in O_Sources
      PROVE  LET left == Left(s)
             IN /\ left \in Seq(Scan) /\ OwnScans(left, s)
                /\ conf[s].keep > 0 => \A i \in 1..Len(left) : now - left[i].stamp <= conf[s].keep
                /\ NewestFirst(buffer[s].list) =>
                     /\ NewestFirst(left)
                     /\ conf[s].keep > 0 => \A i \in 1..Len(buffer[s].list) :
                          now - buffer[s].list[i].stamp <= conf[s].keep
                            => \E j \in 1..Len(left) : left[j] = buffer[s].list[i]
  <2>1. PurgeKeeps(Left(s), buffer[s].list, s, conf[s].keep, now)
    BY <1>1, <1>2, PurgeScans
  <2>. HIDE DEF Left
  <2>. QED
    BY <2>1 DEF PurgeKeeps
<1>. HIDE DEF Left
<1>4. \A s \in Q : buffer'[s] = [list |-> Left(s), updated |-> buffer[s].updated]
  <2> SUFFICES ASSUME NEW s \in Q PROVE buffer'[s] = [list |-> Left(s), updated |-> buffer[s].updated]
    OBVIOUS
  <2>1. buffer'[s] = [buffer[s] EXCEPT !.list = Left(s)]
    BY DEF O!Read, O!GetObservations, Left
  <2>. QED
    BY <1>1, <2>1 DEF ScanBuffer
<1>5. \A s \in O_Sources \ Q : buffer'[s] = buffer[s]
  BY DEF O!Read
<1>6. \A s \in Q : buffer'[s].list = Left(s) /\ buffer'[s].updated = buffer[s].updated
  <2> SUFFICES ASSUME NEW s \in Q
               PROVE  buffer'[s].list = Left(s) /\ buffer'[s].updated = buffer[s].updated
    OBVIOUS
  <2>1. buffer'[s] = [list |-> Left(s), updated |-> buffer[s].updated]
    BY <1>4
  <2>. QED
    BY <2>1
<1>7. buffer' \in [O_Sources -> ScanBuffer]
  <2>1. \A s \in O_Sources : buffer'[s] \in ScanBuffer
    <3> SUFFICES ASSUME NEW s \in O_Sources PROVE buffer'[s] \in ScanBuffer
      OBVIOUS
    <3>1. Left(s) \in Seq(Scan) /\ buffer[s].updated \in Int
      BY <1>1, <1>3
    <3>2. CASE s \in Q
      <4>1. buffer'[s] = [list |-> Left(s), updated |-> buffer[s].updated]
        BY <1>4, <3>2
      <4>. QED
        BY <3>1, <4>1 DEF ScanBuffer
    <3>3. CASE s \notin Q
      BY <1>1, <1>5, <3>3
    <3>. QED
      BY <3>2, <3>3
  <2>2. buffer' = [s \in O_Sources |-> buffer'[s]]
    BY DEF O!Read
  <2>. QED
    BY <2>1, <2>2
<1>8. OInv'
  BY <1>3, <1>5, <1>6, <1>7 DEF OType, OBuffers
<1>9. O!FreshKeptStep
  <2> SUFFICES ASSUME ~late, NEW s \in O_Sources, NEW i \in 1..Len(buffer[s].list),
                      O!Lasting(s), O!Fresh(buffer[s].list[i])
               PROVE  \E j \in 1..Len(buffer'[s].list) : buffer'[s].list[j] = buffer[s].list[i]
    <3>1. \A s \in O_Sources : DOMAIN buffer[s].list = 1..Len(buffer[s].list)
      BY <1>1, LenProperties
    <3>2. \A s \in O_Sources : DOMAIN buffer'[s].list = 1..Len(buffer'[s].list)
      BY <1>7, LenProperties DEF ScanBuffer
    <3>. QED
      BY <3>1, <3>2 DEF O!FreshKeptStep
  <2>1. CASE s \notin Q
    BY <1>5, <2>1
  <2>2. CASE s \in Q
    <3>1. conf[s].keep > 0 /\ now - buffer[s].list[i].stamp <= conf[s].keep
      BY <1>1 DEF O!Lasting, O!Fresh, OwnScans
    <3>. QED
      BY <1>3, <1>6, <2>2, <3>1 DEF OBuffers
  <2>. QED
    BY <2>1, <2>2
<1>10. ASSUME NEW r \in O!ReadingsOf(buffer', Q), O!Lasting(r.source) PROVE O!Fresh(r)
  <2>1. PICK s \in Q : \E i \in DOMAIN buffer'[s].list : r = buffer'[s].list[i]
    BY <1>10 DEF O!ReadingsOf
  <2>2. PICK i \in 1..Len(Left(s)) : r = Left(s)[i]
    BY <1>3, <1>6, <2>1, LenProperties
  <2>3. r.source = s
    BY <1>3, <2>2 DEF OwnScans
  <2>. QED
    BY <1>3, <1>10, <2>2, <2>3 DEF O!Lasting, O!Fresh
<1>11. ASSUME ~O!AllCurrent(buffer', Q)
       PROVE  \E s \in O_Sources : conf[s].rate > 0 /\ now - born[s] > conf[s].rate
  <2>1. PICK s \in Q : ~O!IsCurrent(buffer'[s], conf[s], now)
    BY <1>11 DEF O!AllCurrent
  <2>2. conf[s].rate # 0 /\ ~(now - born[s] <= conf[s].rate)
    BY <1>6, <2>1 DEF O!IsCurrent, OBuffers
  <2>3. born[s] \in Int
    BY <1>1 DEF OBuffers
  <2>. QED
    BY <1>1, <1>2, <2>2, <2>3
<1>. QED
  BY <1>8, <1>9, <1>10, <1>11

(* A cloud that is delivered goes to the front of its buffer.               *)
LEMMA DeliverOK ==
  ASSUME OInv, NEW c \in inFlight, NEW tfOk \in BOOLEAN, O!Deliver(c, tfOk)
  PROVE  OInv' /\ O!FreshKeptStep
<1> USE DEF OInv
<1>0. PICK s : s = c[1]
  OBVIOUS
<1> DEFINE cloud == [source |-> s, stamp |-> c[2]]
           l == buffer[s].list
           all1 == <<cloud>> \o l
           left == O!PurgeStaleObservations(all1, conf[s].keep, now)
<1>1. /\ UNCHANGED <<conf, now>> /\ inFlight' = inFlight \ {c}
      /\ buffer' = [buffer EXCEPT ![s] = O!BufferCloud(buffer[s], cloud, conf[s], now, tfOk)]
      /\ born' = IF tfOk THEN [born EXCEPT ![s] = now] ELSE born
      /\ late' = (late \/ \E i \in DOMAIN l : l[i].stamp > c[2])
  BY <1>0 DEF O!Deliver
<1>2. s \in O_Sources /\ c[2] \in Int /\ cloud \in Scan /\ now \in Int
  BY <1>0 DEF OType, Scan
<1>3. /\ buffer[s] \in ScanBuffer /\ l \in Seq(Scan) /\ OwnScans(l, s)
      /\ conf[s].keep \in Nat
  BY <1>2, ConfOfSource DEF OType, OBuffers, ScanBuffer
<1>4. \A i \in 1..Len(l) : l[i] \in Scan /\ l[i].stamp \in Int
  <2>1. \A i \in 1..Len(l) : l[i] \in Scan
    <3>. HIDE DEF l
    <3>. QED
      BY <1>3, ElementOfSeq
  <2>. QED
    BY <2>1 DEF Scan
<1>5. inFlight' \subseteq O_Sources \X Int /\ late' \in BOOLEAN
  <2>1. late' \in BOOLEAN
    BY <1>1, Zenon
  <2>. QED
    BY <1>1, <2>1 DEF OType
<1>6. CASE ~tfOk
  <2>1. UNCHANGED <<conf, now, born, buffer>>
    BY <1>1, <1>6 DEF O!BufferCloud, OType
  <2>2. ~late' => ~late
    BY <1>1
  <2>3. OInv'
    BY <1>5, <2>1, <2>2 DEF OType, OBuffers
  <2>. QED
    BY <2>1, <2>3 DEF O!FreshKeptStep
<1>7. CASE tfOk
  <2>1. buffer' = [buffer EXCEPT ![s] = [list |-> left, updated |-> now]] /\ born' = [born EXCEPT ![s] = now]
    BY <1>1, <1>7 DEF O!BufferCloud
  <2>. HIDE DEF l, cloud
  <2>2. /\ all1 \in Seq(Scan) /\ Len(all1) = Len(l) + 1 /\ all1[1] = cloud
        /\ \A i \in 1..Len(l) : all1[i + 1] = l[i]
    <3>1. <<cloud>> \in Seq(Scan) /\ Len(<<cloud>>) = 1 /\ <<cloud>>[1] = cloud
      BY <1>2
    <3>2. Len(l) \in Nat
      BY <1>3
    <3>. QED
      BY <1>3, <3>1, <3>2, ConcatProperties
  <2>. HIDE DEF all1
  <2>3. \A i \in 2..Len(all1) : all1[i] = l[i - 1] /\ i - 1 \in 1..Len(l)
    <3>1. Len(l) \in Nat
      BY <1>3
    <3>. QED
      BY <2>2, <3>1
  <2>4. cloud.source = s /\ cloud.stamp = c[2]
    BY DEF cloud
  <2>5. OwnScans(all1, s)
    <3> SUFFICES ASSUME NEW i \in 1..Len(all1) PROVE all1[i].source = s
      BY DEF OwnScans
    <3>1. CASE i = 1
      BY <2>2, <2>4, <3>1
    <3>2. CASE i # 1
      <4>1. i \in 2..Len(all1)
        BY <2>2, <3>2
      <4>. QED
        BY <1>3, <2>3, <4>1 DEF OwnScans
    <3>. QED
      BY <3>1, <3>2
  <2>6. ~late' => NewestFirst(all1)
    <3> SUFFICES ASSUME ~late', NEW i \in 1..Len(all1), NEW j \in 1..Len(all1), i <= j
                 PROVE  all1[j].stamp <= all1[i].stamp
      BY DEF NewestFirst
    <3>1. NewestFirst(l) /\ \A k \in 1..Len(l) : ~(l[k].stamp > c[2])
      <4>1. ~late /\ ~(\E k \in DOMAIN l : l[k].stamp > c[2])
        BY <1>1 DEF l
      <4>2. NewestFirst(l)
        BY <1>2, <4>1 DEF OBuffers, l
      <4>. QED
        BY <1>3, <4>1, <4>2
    <3>2. CASE j = 1
      BY <1>2, <2>2, <2>4, <3>2
    <3>3. CASE i = 1 /\ j # 1
      <4>1. all1[j] = l[j - 1] /\ j - 1 \in 1..Len(l)
        BY <2>3, <3>3
      <4>. QED
        BY <1>2, <1>4, <2>2, <2>4, <3>1, <3>3, <4>1
    <3>4. CASE i # 1 /\ j # 1
      <4>1. /\ all1[j] = l[j - 1] /\ j - 1 \in 1..Len(l)
            /\ all1[i] = l[i - 1] /\ i - 1 \in 1..Len(l) /\ i - 1 <= j - 1
        BY <2>2, <2>3, <3>4
      <4>. QED
        BY <3>1, <4>1 DEF NewestFirst
    <3>. QED
      BY <3>2, <3>3, <3>4
  <2>7. /\ left \in Seq(Scan) /\ OwnScans(left, s)
        /\ NewestFirst(all1) =>
             /\ NewestFirst(left)
             /\ conf[s].keep > 0 => \A i \in 1..Len(all1) :
                  now - all1[i].stamp <= conf[s].keep => \E j \in 1..Len(left) : left[j] = all1[i]
    <3> DEFINE k == conf[s].keep
    <3>1. k \in Nat
      BY <1>3
    <3>. HIDE DEF k
    <3>2. PurgeKeeps(O!PurgeStaleObservations(all1, k, now), all1, s, k, now)
      <4>1. s \in O_Sources /\ now \in Int /\ all1 \in Seq(Scan)
        BY <1>2, <2>2
      <4>. HIDE DEF OInv
      <4>. QED
        BY <2>5, <3>1, <4>1, PurgeScans
    <3>. QED
      BY <3>2 DEF k, PurgeKeeps
  <2>. HIDE DEF left
  <2>8. /\ buffer'[s] = [list |-> left, updated |-> now] /\ born'[s] = born'[s]
        /\ \A q \in O_Sources \ {s} : buffer'[q] = buffer[q]
    BY <1>2, <2>1 DEF OType
  <2>9. buffer'[s].list = left /\ buffer'[s].updated = now
    BY <2>8
  <2>10. OType'
    <3>1. [list |-> left, updated |-> now] \in ScanBuffer
      BY <1>2, <2>7 DEF ScanBuffer
    <3>2. buffer' \in [O_Sources -> ScanBuffer]
      BY <2>1, <3>1 DEF OType
    <3>. QED
      BY <1>1, <1>5, <3>2 DEF OType
  <2>11. OBuffers'
    <3>1. born'[s] = now /\ \A q \in O_Sources \ {s} : born'[q] = born[q]
      BY <1>2, <2>1 DEF OType
    <3>2. ~late' => ~late
      BY <1>1
    <3> SUFFICES ASSUME NEW q \in O_Sources
                 PROVE  /\ OwnScans(buffer'[q].list, q) /\ (~late' => NewestFirst(buffer'[q].list))
                        /\ buffer'[q].updated = born'[q]
      BY DEF OBuffers
    <3>3. CASE q = s
      BY <2>6, <2>7, <2>9, <3>1, <3>3
    <3>4. CASE q # s
      BY <2>8, <3>1, <3>2, <3>4 DEF OBuffers
    <3>. QED
      BY <3>3, <3>4
  <2>12. O!FreshKeptStep
    <3> SUFFICES ASSUME ~late', NEW q \in O_Sources, NEW i \in DOMAIN buffer[q].list,
                        O!Lasting(q), O!Fresh(buffer[q].list[i])
                 PROVE  \E j \in DOMAIN buffer'[q].list : buffer'[q].list[j] = buffer[q].list[i]
      BY DEF O!FreshKeptStep
    <3>1. CASE q # s
      BY <2>8, <3>1
    <3>2. CASE q = s
      <4>1. i \in 1..Len(l) /\ buffer[q].list[i] = l[i]
        BY <1>3, <3>2 DEF l
      <4>2. conf[s].keep > 0 /\ now - l[i].stamp <= conf[s].keep
        BY <1>3, <3>2, <4>1 DEF O!Lasting, O!Fresh, OwnScans
      <4>3. i + 1 \in 1..Len(all1) /\ all1[i + 1] = l[i]
        BY <1>3, <2>2, <4>1
      <4>4. \E j \in 1..Len(left) : left[j] = l[i]
        BY <2>6, <2>7, <4>2, <4>3
      <4>5. DOMAIN left = 1..Len(left)
        BY <2>7
      <4>. QED
        BY <2>9, <3>2, <4>1, <4>4, <4>5
    <3>. QED
      BY <3>1, <3>2
  <2>. QED
    BY <2>10, <2>11, <2>12
<1>. QED
  BY <1>6, <1>7

LEMMA SourcesInitOK == O!Init => OInv
<1> SUFFICES ASSUME O!Init PROVE OInv
  OBVIOUS
<1> DEFINE empty == [list |-> <<>>, updated |-> 0]
<1>1. /\ conf \in [O_Sources -> O_Confs] /\ now = 0 /\ inFlight = {} /\ late = FALSE
      /\ buffer = [s \in O_Sources |-> empty] /\ born = [s \in O_Sources |-> 0]
  BY DEF O!Init, O!Buffers, O!NewBuffer
<1>2. empty \in ScanBuffer /\ empty.list = <<>> /\ empty.updated = 0
  BY DEF ScanBuffer
<1>. HIDE DEF empty
<1>3. OType
  <2>1. buffer \in [O_Sources -> ScanBuffer] /\ born \in [O_Sources -> Int]
    BY <1>1, <1>2
  <2>2. inFlight \subseteq O_Sources \X Int /\ late \in BOOLEAN /\ now \in Nat
    BY <1>1
  <2>. QED
    BY <1>1, <2>1, <2>2 DEF OType
<1>4. \A s : OwnScans(<<>>, s) /\ NewestFirst(<<>>)
  BY EmptySeq DEF OwnScans, NewestFirst
<1>5. OBuffers
  BY <1>1, <1>2, <1>4 DEF OBuffers
<1>. QED
  BY <1>3, <1>5 DEF OInv

(* Activation and reset make every buffer current.                          *)
LEMMA ResetBuffersOK ==
  ASSUME OInv, O!ResetBuffersLastUpdated, inFlight' \subseteq O_Sources \X Int, UNCHANGED <<conf, now, late>>
  PROVE  OInv' /\ O!FreshKeptStep
<1> USE DEF OInv
<1>1. /\ buffer' = [s \in O_Sources |-> [buffer[s] EXCEPT !.updated = now]]
      /\ born' = [s \in O_Sources |-> now]
  BY DEF O!ResetBuffersLastUpdated, O!ResetLastUpdated
<1>2. \A s \in O_Sources : /\ buffer'[s] \in ScanBuffer /\ buffer'[s].list = buffer[s].list
                           /\ buffer'[s].updated = now /\ born'[s] = now
  <2> SUFFICES ASSUME NEW s \in O_Sources
               PROVE  /\ buffer'[s] \in ScanBuffer /\ buffer'[s].list = buffer[s].list
                      /\ buffer'[s].updated = now /\ born'[s] = now
    OBVIOUS
  <2>1. buffer'[s] = [buffer[s] EXCEPT !.updated = now] /\ born'[s] = now
    BY <1>1
  <2>2. buffer[s] \in ScanBuffer /\ now \in Int
    BY DEF OType
  <2>. QED
    BY <2>1, <2>2 DEF ScanBuffer
<1>3. buffer' \in [O_Sources -> ScanBuffer] /\ born' \in [O_Sources -> Int]
  <2>1. DOMAIN buffer' = O_Sources /\ buffer' = [s \in DOMAIN buffer' |-> buffer'[s]]
    BY <1>1
  <2>2. now \in Int
    BY DEF OType
  <2>. QED
    BY <1>1, <1>2, <2>1, <2>2
<1>. QED
  BY <1>2, <1>3 DEF OType, OBuffers, O!FreshKeptStep

(* What leaves the buffers alone keeps all that is in them.                 *)
LEMMA BuffersUntouched ==
  ASSUME OInv, UNCHANGED <<conf, buffer, born, late>>, now' \in Nat, inFlight' \subseteq O_Sources \X Int
  PROVE  OInv' /\ O!FreshKeptStep
  BY DEF OInv, OType, OBuffers, O!FreshKeptStep

(* Every step keeps the invariant and hears its sources.                    *)
LEMMA SourcesOK ==
  OInv /\ (O!Next \/ UNCHANGED O!vars) =>
    OInv' /\ O!OnlyFreshReadStep /\ O!FreshKeptStep /\ O!SilenceHasCauseStep
<1> SUFFICES ASSUME OInv, O!Next \/ UNCHANGED O!vars
             PROVE  OInv' /\ O!OnlyFreshReadStep /\ O!FreshKeptStep /\ O!SilenceHasCauseStep
  OBVIOUS
<1>1. now \in Nat /\ inFlight \subseteq O_Sources \X Int
  BY DEF OInv, OType
<1>2. reading' = reading \/ ~(reading' \in {"marked", "read"})
        => O!OnlyFreshReadStep /\ O!SilenceHasCauseStep
  BY DEF O!OnlyFreshReadStep, O!SilenceHasCauseStep
<1>3. CASE O!Tick \/ O!Deactivate \/ O!UpdateBounds \/ O!UpdateCosts \/ UNCHANGED O!vars
  <2>1. UNCHANGED <<conf, buffer, born, late, inFlight>> /\ now' \in Nat
    BY <1>1, <1>3 DEF O!Tick, O!Deactivate, O!UpdateBounds, O!UpdateCosts, O!vars, O!update
  <2>2. reading' = reading \/ ~(reading' \in {"marked", "read"})
    BY <1>3 DEF O!Tick, O!Deactivate, O!UpdateBounds, O!UpdateCosts, O!vars, O!update
  <2>. QED
    BY <1>1, <1>2, <2>1, <2>2, BuffersUntouched
<1>4. CASE O!Activate \/ O!Reset
  <2>1. /\ O!ResetBuffersLastUpdated /\ UNCHANGED <<conf, now, late, reading>>
        /\ inFlight' \subseteq O_Sources \X Int
    BY <1>1, <1>4 DEF O!Activate, O!Reset, O!update
  <2>. QED
    BY <1>2, <2>1, ResetBuffersOK
<1>5. ASSUME NEW s \in O_Sources, O!Publish(s)
      PROVE  OInv' /\ O!OnlyFreshReadStep /\ O!FreshKeptStep /\ O!SilenceHasCauseStep
  <2>1. UNCHANGED <<conf, buffer, born, late, now, reading>> /\ inFlight' \subseteq O_Sources \X Int
    BY <1>1, <1>5 DEF O!Publish, O!update
  <2>. QED
    BY <1>1, <1>2, <2>1, BuffersUntouched
<1>6. ASSUME NEW c \in inFlight, NEW tfOk \in BOOLEAN, O!Drop(c) \/ O!Deliver(c, tfOk)
      PROVE  OInv' /\ O!OnlyFreshReadStep /\ O!FreshKeptStep /\ O!SilenceHasCauseStep
  <2>1. reading' = reading
    BY <1>6 DEF O!Drop, O!Deliver, O!update
  <2>2. CASE O!Drop(c)
    <3>1. UNCHANGED <<conf, buffer, born, late, now>> /\ inFlight' \subseteq O_Sources \X Int
      BY <1>1, <2>2 DEF O!Drop, O!update
    <3>. QED
      BY <1>1, <1>2, <2>1, <3>1, BuffersUntouched
  <2>3. CASE O!Deliver(c, tfOk)
    BY <1>2, <2>1, <2>3, DeliverOK
  <2>. QED
    BY <1>6, <2>2, <2>3
<1>7. CASE O!GetMarkingObservations
  <2>1. /\ reading = "idle" /\ reading' = "marked" /\ buffer' = O!Read(O!Marking)
        /\ marks' = O!ReadingsOf(buffer', O!Marking) /\ allCurrent' = O!AllCurrent(buffer', O!Marking)
        /\ UNCHANGED <<conf, now, inFlight, born, late>>
    BY <1>7 DEF O!GetMarkingObservations
  <2>2. O!Marking \in SUBSET O_Sources
    BY DEF O!Marking
  <2>3. /\ OInv' /\ O!FreshKeptStep
        /\ \A r \in marks' : O!Lasting(r.source) => O!Fresh(r)
        /\ ~allCurrent' => \E s \in O_Sources : conf[s].rate > 0 /\ now - born[s] > conf[s].rate
    BY <2>1, <2>2, ReadOK
  <2>. QED
    BY <2>1, <2>3 DEF O!OnlyFreshReadStep, O!SilenceHasCauseStep
<1>8. CASE O!GetClearingObservations
  <2>1. /\ reading = "marked" /\ reading' = "read" /\ UNCHANGED <<conf, now, inFlight, born, late>>
        /\ \/ buffer' = O!Read(O!Clearing) /\ clears' = O!ReadingsOf(buffer', O!Clearing)
           \/ buffer' = buffer /\ clears' = {}
    BY <1>8 DEF O!GetClearingObservations
  <2>2. O!Clearing \in SUBSET O_Sources
    BY DEF O!Clearing
  <2>3. /\ OInv' /\ O!FreshKeptStep
        /\ \A r \in clears' : O!Lasting(r.source) => O!Fresh(r)
    <3>1. CASE buffer' = O!Read(O!Clearing) /\ clears' = O!ReadingsOf(buffer', O!Clearing)
      BY <2>1, <2>2, <3>1, ReadOK
    <3>2. CASE buffer' = buffer /\ clears' = {}
      BY <1>1, <2>1, <3>2, BuffersUntouched
    <3>. QED
      BY <2>1, <3>1, <3>2
  <2>. QED
    BY <2>1, <2>3 DEF O!OnlyFreshReadStep, O!SilenceHasCauseStep
<1>. QED
  BY <1>3, <1>4, <1>5, <1>6, <1>7, <1>8
  DEF O!Next, O!PointCloud2Callback, O!LaserScanCallback, O!LaserScanValidInfCallback

-----------------------------------------------------------------------------
(* The voxel decay layer.                                                   *)
Visible == UNION {UNION D_Shapes[s] : s \in D_Sources}

Cloud == [source : D_Sources, stamp : Int, voxels : SUBSET Visible]

CloudBuffer == [list : Seq(Cloud), updated : Int]

DType ==
  /\ now \in Nat /\ phase \in {"idle", "read", "reset", "swept", "bounded"}
  /\ buffer \in [D_Sources -> CloudBuffer] /\ readings \subseteq Cloud
  /\ DOMAIN grid \subseteq Visible /\ (\A v \in DOMAIN grid : grid[v] \in Int)
  /\ counts \in [D_Cells -> Nat] /\ seen \in [D_Cells -> Int] /\ sweptAt \in Nat
  /\ cleared \subseteq D_Cells /\ costs \subseteq D_Cells /\ touched \subseteq D_Cells
  /\ master \subseteq D_Cells /\ extra \in BOOLEAN /\ resetting \in BOOLEAN /\ markThreshold \in Int

(* The voxels of a cell.                                                    *)
VoxelsAt(c) == {v \in DOMAIN grid : v[1] = c}

(* A mark is not younger than what was seen, and what a sweep counted, or   *)
(* the costmap of the layer took over from it, has not decayed.             *)
Recent ==
  /\ sweptAt <= now /\ \A c \in D_Cells : seen[c] <= now
  /\ \A v \in DOMAIN grid : grid[v] <= seen[v[1]]
  /\ \A c \in D_Cells : counts[c] > 0 => sweptAt - seen[c] <= D_Decay
  /\ phase # "swept" => \A c \in costs : sweptAt - seen[c] <= D_Decay

(* A cell has the voxels of an obstacle, as many as were counted.           *)
Dense(c) == Cardinality(VoxelsAt(c)) > 0 /\ Cardinality(VoxelsAt(c)) >= markThreshold

(* What is lethal in the layer has its voxels in the grid, until a sweep    *)
(* clears one of them, unless the grid was reset behind its back.           *)
Backed ==
  /\ phase # "swept" => \A c \in costs : c \in forgotten \/ Dense(c)
  /\ phase = "swept" =>
       /\ costs \subseteq forgotten \cup cleared \cup D!Swept
       /\ \A c \in D_Cells : c \in forgotten \/ counts[c] = Cardinality(VoxelsAt(c))

(* What the master has and the layer has not is in the bounds of the next   *)
(* update of the master.                                                    *)
Bounded ==
  /\ extra \/ master \ costs \subseteq forgotten \cup touched
  /\ phase = "idle" => touched = {}

(* What the layer has and the master has not, too.                          *)
Taken ==
  /\ phase # "bounded" /\ ~resetting => costs \subseteq master
  /\ phase = "bounded" => costs \subseteq touched

(* A buffer was updated when its source last gave a sign of life that is    *)
(* noted: a cloud of a source that marks, or a new beginning.               *)
Heard == alive \in [D_Sources -> Int] /\ \A s \in D_Sources : buffer[s].updated = alive[s]

DInv == DType /\ Recent /\ Backed /\ Bounded /\ Taken /\ Heard

(* The constants of the layer.                                              *)
LEMMA DecayConstants ==
  /\ \A s \in D_Sources : D_Conf[s].keep \in Nat /\ D_Conf[s].rate \in Nat
  /\ D_Decay \in Int /\ D_Acceleration \in Nat /\ D_MarkThresholds \subseteq Int /\ D_Cells \subseteq Int
  /\ \A s \in D_Sources : \A shape \in D_Shapes[s] : shape \subseteq Visible
  /\ \A v \in Visible : v[1] \in D_Cells
  /\ IsFiniteSet(Visible)
<1>1. \A s \in D_Sources : D_Conf[s].keep \in Nat /\ D_Conf[s].rate \in Nat
  <2>1. \A s \in D_Sources : D_Conf[s] \in [keep : Nat, rate : Nat, marking : BOOLEAN, clearing : BOOLEAN,
                                          clearAfter : BOOLEAN]
    BY DecayAssumption
  <2>. QED
    BY <2>1
<1>2. D_Decay \in Int /\ D_Acceleration \in Nat /\ D_MarkThresholds \subseteq Int /\ D_Cells \subseteq Int
  BY DecayAssumption
<1>3. \A s \in D_Sources : \A shape \in D_Shapes[s] : shape \subseteq Visible
  BY DEF Visible
<1>4. \A v \in Visible : v[1] \in D_Cells
  <2>1. \A v \in Visible : v \in D_Cells \X Int
    BY DecayAssumption DEF Visible
  <2>. QED
    BY <2>1
<1>5. IsFiniteSet(Visible)
  BY DecayAssumption DEF Visible
<1>. QED
  BY <1>1, <1>2, <1>3, <1>4, <1>5

(* What happens to a buffer of readings.                                    *)
LEMMA LeftOK ==
  ASSUME NEW l \in Seq(Cloud), NEW s \in D_Sources, NEW t \in Int
  PROVE  D!RemoveStaleObservations(l, D_Conf[s].keep, t) \in Seq(Cloud)
<1> DEFINE keep == D_Conf[s].keep
<1>1. keep \in Nat
  BY DecayConstants
<1>2. \A r \in Cloud : r.stamp \in Int
  BY DEF Cloud
<1>. HIDE DEF keep
<1>3. O!PurgeStaleObservations(l, keep, t) \in Seq(Cloud)
  BY <1>1, <1>2, PurgeKeepsFirst
<1>4. D!RemoveStaleObservations(l, keep, t) = O!PurgeStaleObservations(l, keep, t)
  BY DEF D!RemoveStaleObservations, D!PurgeStaleObservations, O!PurgeStaleObservations
<1>. QED
  BY <1>3, <1>4 DEF keep

(* A cloud that comes in is noted as an update only if its source marks.    *)
LEMMA CloudBuffered ==
  ASSUME NEW b \in CloudBuffer, NEW s \in D_Sources, NEW c \in Cloud, NEW t \in Int, NEW tfOk \in BOOLEAN
  PROVE  /\ D!BufferROSCloud(b, c, D_Conf[s], t, tfOk) \in CloudBuffer
         /\ D!BufferROSCloud(b, c, D_Conf[s], t, tfOk).updated
              = IF tfOk /\ ~D!OnlyClears(s) THEN t ELSE b.updated
<1> DEFINE Left(l) == D!RemoveStaleObservations(l, D_Conf[s].keep, t)
           result == D!BufferROSCloud(b, c, D_Conf[s], t, tfOk)
<1>1. b.list \in Seq(Cloud) /\ b.updated \in Int
  BY DEF CloudBuffer
<1>2. \A d \in Cloud : <<d>> \o b.list \in Seq(Cloud)
  BY <1>1, ConcatProperties
<1>3. CASE ~tfOk
  BY <1>3, Zenon DEF D!BufferROSCloud
<1>4. CASE tfOk /\ D!OnlyClears(s)
  <2> DEFINE new == <<[c EXCEPT !.stamp = D!NeverStamped]>> \o b.list
  <2>1. [c EXCEPT !.stamp = D!NeverStamped] \in Cloud
    BY DEF Cloud, D!NeverStamped
  <2>2. result = [b EXCEPT !.list = new]
    BY <1>4 DEF D!BufferROSCloud, D!OnlyClears
  <2>3. new \in Seq(Cloud)
    BY <1>2, <2>1
  <2>. HIDE DEF new, result
  <2>4. result \in CloudBuffer /\ result.updated = b.updated
    BY <2>2, <2>3 DEF CloudBuffer
  <2>. QED
    BY <1>4, <2>4 DEF result
<1>5. CASE tfOk /\ ~D!OnlyClears(s)
  <2>1. result = [list |-> Left(<<c>> \o b.list), updated |-> t]
    BY <1>5 DEF D!BufferROSCloud, D!OnlyClears
  <2>2. Left(<<c>> \o b.list) \in Seq(Cloud)
    BY <1>2, LeftOK
  <2>. HIDE DEF Left, result
  <2>3. result \in CloudBuffer /\ result.updated = t
    BY <2>1, <2>2 DEF CloudBuffer
  <2>. QED
    BY <1>5, <2>3 DEF result
<1>. QED
  BY <1>3, <1>4, <1>5

(* Reading and clearing a buffer are no updates, resetting it is one.       *)
LEMMA CloudBuffers ==
  ASSUME NEW b \in CloudBuffer, NEW s \in D_Sources, NEW t \in Int
  PROVE  /\ D!GetReadings(b, D_Conf[s], t) \in CloudBuffer
         /\ D!GetReadings(b, D_Conf[s], t).updated = b.updated
         /\ D!ResetLastUpdated(b, t) \in CloudBuffer /\ D!ResetLastUpdated(b, t).updated = t
         /\ D!ResetAllMeasurements(b) \in CloudBuffer /\ D!ResetAllMeasurements(b).updated = b.updated
<1> DEFINE Left(l) == D!RemoveStaleObservations(l, D_Conf[s].keep, t)
<1>1. b.list \in Seq(Cloud) /\ b.updated \in Int
  BY DEF CloudBuffer
<1>2. /\ D!GetReadings(b, D_Conf[s], t) \in CloudBuffer
      /\ D!GetReadings(b, D_Conf[s], t).updated = b.updated
  <2>1. D!GetReadings(b, D_Conf[s], t) = [b EXCEPT !.list = Left(b.list)]
    BY DEF D!GetReadings
  <2>2. Left(b.list) \in Seq(Cloud)
    BY <1>1, LeftOK
  <2>. HIDE DEF Left
  <2>. QED
    BY <1>1, <2>1, <2>2 DEF CloudBuffer
<1>3. D!ResetLastUpdated(b, t) \in CloudBuffer /\ D!ResetLastUpdated(b, t).updated = t
  BY DEF D!ResetLastUpdated, CloudBuffer
<1>4. D!ResetAllMeasurements(b) \in CloudBuffer /\ D!ResetAllMeasurements(b).updated = b.updated
  <2>1. D!ResetAllMeasurements(b) = [b EXCEPT !.list = <<>>] /\ <<>> \in Seq(Cloud)
    BY EmptySeq DEF D!ResetAllMeasurements
  <2>. QED
    BY <1>1, <2>1 DEF CloudBuffer
<1>. QED
  BY <1>2, <1>3, <1>4

(* The layer counts as everyone does.                                       *)
LEMMA SameCardinality == \A S : D!Cardinality(S) = Cardinality(S)
  BY DEF D!Cardinality, Cardinality

(* The voxels of a cell are finitely many, and more the more there are.     *)
LEMMA VoxelsCount ==
  ASSUME NEW vs, vs \subseteq Visible, NEW ws, ws \subseteq vs, NEW c
  PROVE  /\ Cardinality({v \in ws : v[1] = c}) \in Nat
         /\ Cardinality({v \in ws : v[1] = c}) <= Cardinality({v \in vs : v[1] = c})
         /\ Cardinality({v \in ws : v[1] = c}) > 0 => \E v \in ws : v[1] = c
<1> DEFINE some == {v \in ws : v[1] = c}
           more == {v \in vs : v[1] = c}
<1>1. some \subseteq more /\ more \subseteq Visible
  OBVIOUS
<1>2. some # {} => \E v \in ws : v[1] = c
  OBVIOUS
<1>. HIDE DEF some, more
<1>3. IsFiniteSet(more)
  BY <1>1, DecayConstants, FS_Subset
<1>4. IsFiniteSet(some) /\ Cardinality(some) <= Cardinality(more)
  BY <1>1, <1>3, FS_Subset
<1>5. Cardinality(some) \in Nat /\ Cardinality({}) = 0
  BY <1>4, FS_CardinalityType, FS_EmptySet
<1>6. Cardinality(some) > 0 => some # {}
  BY <1>5
<1>. QED
  BY <1>2, <1>4, <1>5, <1>6 DEF some, more

(* The bounds of an update span the cells they are made from.               *)
LEMMA SpanCovers == ASSUME NEW cs, cs \subseteq D_Cells PROVE cs \subseteq D!Span(cs) /\ D!Span(cs) \subseteq D_Cells
<1>1. \A c \in cs : c \in D_Cells /\ c <= c
  BY DecayConstants
<1>. QED
  BY <1>1 DEF D!Span

LEMMA DecayInitOK == D!Init => DInv
<1> SUFFICES ASSUME D!Init PROVE DInv
  OBVIOUS
<1> DEFINE empty == [list |-> <<>>, updated |-> 0]
<1>1. /\ now = 0 /\ phase = "idle" /\ readings = {} /\ grid = D!NoVoxels /\ sweptAt = 0
      /\ counts = [c \in D_Cells |-> 0] /\ seen = [c \in D_Cells |-> D!NeverStamped]
      /\ cleared = {} /\ costs = {} /\ touched = {} /\ master = {} /\ extra = FALSE /\ resetting = FALSE
      /\ buffer = [s \in D_Sources |-> empty] /\ alive = [s \in D_Sources |-> 0]
      /\ markThreshold \in D_MarkThresholds
  BY DEF D!Init, D!Buffers, D!NewBuffer
<1>2. empty \in CloudBuffer /\ empty.updated = 0
  BY EmptySeq DEF CloudBuffer
<1>. HIDE DEF empty
<1>3. DOMAIN grid = {} /\ D!NeverStamped \in Int /\ D!NeverStamped <= 0
  BY <1>1 DEF D!NoVoxels, D!NeverStamped
<1>4. DType
  <2>1. counts \in [D_Cells -> Nat] /\ seen \in [D_Cells -> Int]
    BY <1>1, <1>3
  <2>2. buffer \in [D_Sources -> CloudBuffer]
    BY <1>1, <1>2
  <2>. QED
    BY <1>1, <1>3, <2>1, <2>2, DecayConstants DEF DType
<1>5. Recent
  BY <1>1, <1>3 DEF Recent
<1>6. Backed /\ Bounded /\ Taken
  BY <1>1 DEF Backed, Bounded, Taken
<1>7. Heard
  BY <1>1, <1>2 DEF Heard
<1>. QED
  BY <1>4, <1>5, <1>6, <1>7 DEF DInv

(* Time, sensors and what leaves the grid and the costs alone.              *)
LEMMA GridUntouched ==
  ASSUME DInv, UNCHANGED <<grid, counts, cleared, costs, touched, seen, sweptAt, forgotten, extra, markThreshold>>,
         now' \in Nat, now <= now',
         phase' = phase \/ (phase = "read" /\ phase' = "reset"),
         \/ UNCHANGED <<master, resetting>>
         \/ phase # "bounded" /\ phase' = phase /\ master' = {} /\ resetting' = TRUE,
         buffer' \in [D_Sources -> CloudBuffer], readings' \subseteq Cloud, Heard'
  PROVE  DInv'
<1> USE DEF DInv
<1>1. DType' /\ Recent'
  <2>1. phase' \in {"idle", "read", "reset", "swept", "bounded"}
    BY DEF DType
  <2>2. (phase' = "swept" <=> phase = "swept") /\ resetting' \in BOOLEAN
    BY DEF DType
  <2>3. DType'
    BY <2>1, <2>2 DEF DType
  <2>4. sweptAt' <= now' /\ \A c \in D_Cells : seen'[c] <= now'
    <3>1. now \in Nat /\ now' \in Nat /\ now <= now' /\ sweptAt \in Nat /\ sweptAt' = sweptAt /\ seen' = seen
      BY DEF DType
    <3>2. \A c \in D_Cells : seen[c] \in Int
      BY DEF DType
    <3>. QED
      BY <3>1, <3>2 DEF Recent
  <2>5. Recent'
    BY <2>2, <2>4 DEF Recent
  <2>. QED
    BY <2>3, <2>5
<1>2. \A c : VoxelsAt(c)' = VoxelsAt(c)
  BY DEF VoxelsAt
<1>3. D!Swept' = D!Swept
  BY DEF D!Swept
<1>4. Backed'
  <2>1. phase' = "swept" <=> phase = "swept"
    OBVIOUS
  <2>2. \A c : Dense(c)' <=> Dense(c)
    BY <1>2 DEF Dense
  <2>. QED
    BY <1>2, <1>3, <2>1, <2>2 DEF Backed
<1>5. Bounded' /\ Taken'
  BY DEF Bounded, Taken
<1>. QED
  BY <1>1, <1>4, <1>5

(* The grid is reset: a source is disabled, or the layer is reset.          *)
LEMMA GridReset ==
  ASSUME DInv, D!ResetGrid,
         UNCHANGED <<now, phase, readings, counts, cleared, touched, seen, sweptAt, master, extra, markThreshold>>,
         \/ UNCHANGED <<costs, resetting>>
         \/ phase # "swept" /\ costs' = {} /\ resetting' = FALSE,
         buffer' \in [D_Sources -> CloudBuffer], Heard'
  PROVE  DInv'
<1> USE DEF DInv
<1>1. DOMAIN grid' = {} /\ forgotten' = forgotten \cup D!CellsOf(DOMAIN grid) \cup costs \cup D!Swept
  BY DEF D!ResetGrid, D!NoVoxels
<1>2. DType' /\ Recent'
  BY <1>1 DEF DType, Recent
<1>3. D!Swept' = D!Swept
  BY DEF D!Swept
<1>4. Backed'
  <2>1. ASSUME NEW c \in D_Cells, c \notin forgotten', phase = "swept"
        PROVE  counts[c] = Cardinality(VoxelsAt(c)')
    <3>1. VoxelsAt(c) = {}
      BY <1>1, <2>1 DEF VoxelsAt, D!CellsOf
    <3>2. VoxelsAt(c)' = {}
      BY <1>1 DEF VoxelsAt
    <3>3. counts[c] = Cardinality(VoxelsAt(c))
      BY <1>1, <2>1 DEF Backed
    <3>. QED
      BY <3>1, <3>2, <3>3
  <2>. QED
    BY <1>1, <2>1 DEF Backed
<1>5. Bounded' /\ Taken'
  BY <1>1 DEF Bounded, Taken
<1>. QED
  BY <1>2, <1>4, <1>5

(* Some of the cells are cleared by a service.                              *)
LEMMA ClearAreaOK ==
  ASSUME DInv, NEW kept \in SUBSET D_Cells, D!ClearArea(kept)
  PROVE  DInv'
<1> USE DEF DInv
<1>1. /\ phase \in {"idle", "bounded"} /\ phase' = phase /\ costs' = costs \cap kept /\ extra' = TRUE
      /\ UNCHANGED <<now, buffer, alive, readings, counts, cleared, touched, master, resetting, seen, sweptAt, forgotten,
                     markThreshold>>
  BY DEF D!ClearArea, D!sensors, D!local
<1>2. /\ DOMAIN grid' = {v \in DOMAIN grid : v[1] \in kept}
      /\ \A v \in DOMAIN grid' : grid'[v] = grid[v]
  BY DEF D!ClearArea, D!ResetGridArea
<1>3. DType' /\ Recent' /\ Heard'
  BY <1>1, <1>2 DEF DType, Recent, Heard
<1>4. \A c \in kept : VoxelsAt(c)' = VoxelsAt(c)
  BY <1>2 DEF VoxelsAt
<1>5. Backed'
  BY <1>1, <1>4 DEF Backed, Dense
<1>6. Bounded' /\ Taken'
  BY <1>1 DEF Bounded, Taken
<1>. QED
  BY <1>3, <1>5, <1>6

(* A new threshold: what becomes too thin for it is forgotten.              *)
LEMMA SetMarkThresholdOK ==
  ASSUME DInv, NEW n \in D_MarkThresholds, D!SetMarkThreshold(n)
  PROVE  DInv'
<1> USE DEF DInv
<1>1. /\ markThreshold' = n /\ n \in Int /\ forgotten' = forgotten \cup D!FewerThan(n)
      /\ UNCHANGED <<now, buffer, alive, phase, readings, counts, cleared, touched, grid, costs, master, resetting,
                     extra, seen, sweptAt>>
  BY DecayConstants DEF D!SetMarkThreshold, D!local
<1>2. DType' /\ Recent' /\ Heard' /\ Bounded' /\ Taken'
  BY <1>1 DEF DType, Recent, Heard, Bounded, Taken
<1>3. \A c : VoxelsAt(c)' = VoxelsAt(c)
  BY <1>1 DEF VoxelsAt
<1>4. ASSUME NEW c \in costs, c \notin forgotten'
      PROVE  Cardinality(VoxelsAt(c)) >= n /\ c \notin forgotten /\ c \in D_Cells
  <2>1. Cardinality(VoxelsAt(c)) \in Nat
    <3>1. DOMAIN grid \subseteq Visible
      BY DEF DType
    <3>. QED
      BY <3>1, VoxelsCount DEF VoxelsAt
  <2>2. c \notin D!FewerThan(n) /\ c \notin forgotten
    BY <1>1, <1>4
  <2>3. ~(Cardinality(VoxelsAt(c)) < n)
    BY <2>2, SameCardinality DEF D!FewerThan, VoxelsAt
  <2>. QED
    BY <1>1, <2>1, <2>2, <2>3 DEF DType
<1>5. CASE phase # "swept"
  <2>1. \A c \in costs : c \in forgotten' \/ Dense(c)'
    BY <1>1, <1>3, <1>4, <1>5 DEF Backed, Dense
  <2>. QED
    BY <1>1, <1>2, <1>5, <2>1 DEF Backed
<1>6. CASE phase = "swept"
  <2>1. \A c \in D_Cells : c \in forgotten' \/ counts'[c] = Cardinality(VoxelsAt(c)')
    BY <1>1, <1>3, <1>6 DEF Backed
  <2>2. ASSUME NEW c \in costs, c \notin forgotten', c \notin cleared PROVE c \in D!Swept'
    <3>1. c \in D!Swept /\ counts[c] = Cardinality(VoxelsAt(c)) /\ Cardinality(VoxelsAt(c)) >= n
      BY <1>4, <1>6, <2>2 DEF Backed
    <3>. QED
      BY <1>1, <3>1 DEF D!Swept
  <2>3. costs' \subseteq forgotten' \cup cleared' \cup D!Swept'
    BY <1>1, <2>2
  <2>4. Backed'
    BY <1>1, <1>6, <2>1, <2>3 DEF Backed
  <2>. QED
    BY <1>2, <2>4
<1>. QED
  BY <1>5, <1>6

(* Every buffer holds its readings, and was updated when it says.           *)
LEMMA BuffersOK ==
  ASSUME DInv, UNCHANGED <<alive, now>>,
         \/ buffer' = [s \in D_Sources |-> D!GetReadings(buffer[s], D_Conf[s], now)]
         \/ buffer' = [s \in D_Sources |->
              IF D_Conf[s].clearAfter THEN D!ResetAllMeasurements(buffer[s]) ELSE buffer[s]]
  PROVE  buffer' \in [D_Sources -> CloudBuffer] /\ Heard'
<1>1. \A s \in D_Sources : buffer[s] \in CloudBuffer /\ buffer[s].updated = alive[s] /\ now \in Int
  BY DEF DInv, DType, Heard
<1>2. \A s \in D_Sources : buffer'[s] \in CloudBuffer /\ buffer'[s].updated = buffer[s].updated
  <2> SUFFICES ASSUME NEW s \in D_Sources
               PROVE  buffer'[s] \in CloudBuffer /\ buffer'[s].updated = buffer[s].updated
    OBVIOUS
  <2>2. /\ D!GetReadings(buffer[s], D_Conf[s], now) \in CloudBuffer
        /\ D!GetReadings(buffer[s], D_Conf[s], now).updated = buffer[s].updated
        /\ D!ResetAllMeasurements(buffer[s]) \in CloudBuffer
        /\ D!ResetAllMeasurements(buffer[s]).updated = buffer[s].updated
    <3> DEFINE b == buffer[s]
               t == now
    <3>1. b \in CloudBuffer /\ t \in Int
      BY <1>1
    <3>. HIDE DEF b, t
    <3>2. /\ D!GetReadings(b, D_Conf[s], t) \in CloudBuffer
          /\ D!GetReadings(b, D_Conf[s], t).updated = b.updated
          /\ D!ResetAllMeasurements(b) \in CloudBuffer
          /\ D!ResetAllMeasurements(b).updated = b.updated
      BY <3>1, CloudBuffers
    <3>. QED
      BY <3>2 DEF b, t
  <2>. QED
    BY <1>1, <2>2
<1>3. DOMAIN buffer' = D_Sources /\ buffer' = [s \in DOMAIN buffer' |-> buffer'[s]]
  OBVIOUS
<1>. QED
  BY <1>1, <1>2, <1>3 DEF DInv, Heard

(* An update begins: what is in the buffers is read.                        *)
LEMMA ReadBuffersOK == ASSUME DInv, D!ReadBuffers PROVE DInv' /\ D!SilenceHasCauseStep
<1> USE DEF DInv
<1>1. /\ phase = "idle" /\ phase' = "read" /\ touched' = (IF extra THEN D_Cells ELSE {}) /\ extra' = FALSE
      /\ UNCHANGED <<now, alive, counts, cleared, grid, costs, master, resetting, seen, sweptAt, forgotten, markThreshold>>
      /\ buffer' = [s \in D_Sources |-> D!GetReadings(buffer[s], D_Conf[s], now)]
      /\ readings' = UNION {{buffer'[s].list[i] : i \in DOMAIN buffer'[s].list} : s \in D_Sources}
  BY DEF D!ReadBuffers
<1>2. buffer' \in [D_Sources -> CloudBuffer] /\ Heard'
  BY <1>1, BuffersOK
<1>3. readings' \subseteq Cloud
  <2>1. \A s \in D_Sources : buffer'[s].list \in Seq(Cloud)
    BY <1>2 DEF CloudBuffer
  <2>2. \A s \in D_Sources : \A i \in DOMAIN buffer'[s].list : buffer'[s].list[i] \in Cloud
    BY <2>1
  <2>. QED
    BY <1>1, <2>2
<1>4. DType'
  <2>1. touched' \subseteq D_Cells /\ extra' \in BOOLEAN
    BY <1>1
  <2>. QED
    BY <1>1, <1>2, <1>3, <2>1 DEF DType
<1>5. Recent'
  BY <1>1 DEF Recent
<1>6. Backed'
  BY <1>1 DEF Backed, Dense, VoxelsAt
<1>7. Bounded' /\ Taken'
  BY <1>1 DEF Bounded, Taken, DType
<1>8. D!SilenceHasCauseStep
  <2>1. \A s \in D_Sources : buffer'[s].updated \in Int /\ buffer'[s].updated = alive[s] /\ now \in Int
                             /\ D_Conf[s].rate \in Nat
    BY <1>1, <1>2, DecayConstants DEF Heard, CloudBuffer, DType
  <2>2. current' = \A s \in D_Sources : D!UpdatedAtExpectedRate(buffer'[s], D_Conf[s], now)
    BY DEF D!ReadBuffers
  <2>3. ASSUME NEW s \in D_Sources, ~D!UpdatedAtExpectedRate(buffer'[s], D_Conf[s], now)
        PROVE  D_Conf[s].rate > 0 /\ now - alive[s] > D_Conf[s].rate
    BY <2>1, <2>3 DEF D!UpdatedAtExpectedRate
  <2>. QED
    BY <2>2, <2>3, Zenon DEF D!SilenceHasCauseStep
<1>. QED
  BY <1>2, <1>4, <1>5, <1>6, <1>7, <1>8

(* A frustum makes a voxel older, never younger.                            *)
LEMMA AccelerationOK ==
  ASSUME DType, Recent, NEW v \in DOMAIN grid
  PROVE  /\ v[1] \in D_Cells /\ now - grid[v] \in Nat
         /\ D!Accelerated(v) \in Nat
<1>1. v[1] \in D_Cells
  BY DecayConstants DEF DType
<1>2. now - grid[v] \in Nat
  <2>1. grid[v] \in Int /\ seen[v[1]] \in Int /\ now \in Int
    BY <1>1 DEF DType
  <2>2. grid[v] <= seen[v[1]] /\ seen[v[1]] <= now
    BY <1>1 DEF Recent
  <2>. QED
    BY <2>1, <2>2
<1>3. ASSUME NEW a \in Nat PROVE D_Acceleration * a * a * a \in Nat
  <2>1. ASSUME NEW x \in Nat, NEW y \in Nat PROVE x * y \in Nat
    OBVIOUS
  <2>2. D_Acceleration \in Nat
    BY DecayConstants
  <2>3. D_Acceleration * a \in Nat
    BY <2>1, <2>2
  <2>4. D_Acceleration * a * a \in Nat
    BY <2>1, <2>3
  <2>. QED
    BY <2>1, <2>4
<1>4. D!GetFrustumAcceleration(now - grid[v]) \in Nat
  BY <1>2, <1>3 DEF D!GetFrustumAcceleration
<1>. QED
  BY <1>1, <1>2, <1>4 DEF D!Accelerated

(* The sweep: what it counts has not decayed, and an obstacle it does not   *)
(* count lost a voxel.                                                      *)
LEMMA ClearFrustumsOK == ASSUME DInv, D!ClearFrustums PROVE DInv'
<1> USE DEF DInv
<1> DEFINE gone == {v \in DOMAIN grid : D!Expired(v)}
           left == DOMAIN grid \ gone
<1>1. /\ phase = "reset" /\ phase' = "swept" /\ sweptAt' = now
      /\ grid' = [v \in left |-> grid[v] - D!Accelerated(v)]
      /\ counts' = [c \in D_Cells |-> Cardinality({v \in left : v[1] = c})]
      /\ cleared' = D!CellsOf(gone)
      /\ UNCHANGED <<now, buffer, alive, readings, touched, costs, master, extra, resetting, seen, forgotten, markThreshold>>
  <2>1. /\ phase = "reset" /\ phase' = "swept" /\ sweptAt' = now
        /\ grid' = [v \in left |-> grid[v] - D!Accelerated(v)]
        /\ counts' = D!FlattenedCostmap(left) /\ cleared' = D!CellsOf(gone)
        /\ UNCHANGED <<now, D!sensors, readings, touched, costs, master, D!flags, seen, forgotten>>
    BY Zenon DEF D!ClearFrustums
  <2>. HIDE DEF gone, left
  <2>2. D!FlattenedCostmap(left) = [c \in D_Cells |-> Cardinality({v \in left : v[1] = c})]
    BY SameCardinality DEF D!FlattenedCostmap
  <2>. QED
    BY <2>1, <2>2 DEF D!sensors, D!flags
<1>2. /\ left \subseteq Visible /\ DOMAIN grid \subseteq Visible /\ left \subseteq DOMAIN grid
      /\ \A v \in DOMAIN grid : v \in left <=> ~D!Expired(v)
      /\ \A v \in DOMAIN grid : v \notin left => v \in gone
  BY DEF DType
<1>3. \A v \in gone : v[1] \in D_Cells /\ v[1] \in cleared'
  BY <1>1, DecayConstants DEF DType, D!CellsOf
<1>4. cleared' \subseteq D_Cells
  BY <1>1, <1>3 DEF D!CellsOf
<1>. HIDE DEF gone, left
<1>5. DOMAIN grid' = left /\ \A v \in left : grid'[v] = grid[v] - D!Accelerated(v)
  BY <1>1
<1>6. \A c \in D_Cells : counts'[c] = Cardinality({v \in left : v[1] = c}) /\ counts'[c] \in Nat
  <2>1. \A c \in D_Cells : Cardinality({v \in left : v[1] = c}) \in Nat
    BY <1>2, VoxelsCount
  <2>. QED
    BY <1>1, <2>1
<1>7. \A v \in left : grid'[v] \in Int /\ grid'[v] <= grid[v]
  <2> SUFFICES ASSUME NEW v \in left PROVE grid'[v] \in Int /\ grid'[v] <= grid[v]
    OBVIOUS
  <2>1. v \in DOMAIN grid
    BY <1>2
  <2>2. D!Accelerated(v) \in Nat /\ grid[v] \in Int
    BY <2>1, AccelerationOK DEF DType
  <2>. QED
    BY <1>5, <2>2
<1>8. DType'
  <2>1. counts' \in [D_Cells -> Nat]
    <3>1. DOMAIN counts' = D_Cells /\ counts' = [c \in DOMAIN counts' |-> counts'[c]]
      BY <1>1
    <3>. QED
      BY <1>6, <3>1
  <2>. QED
    BY <1>1, <1>2, <1>4, <1>5, <1>7, <2>1 DEF DType
<1>9. Recent'
  <2>1. sweptAt' <= now' /\ \A c \in D_Cells : seen'[c] <= now'
    BY <1>1 DEF Recent, DType
  <2>2. \A v \in DOMAIN grid' : grid'[v] <= seen'[v[1]]
    <3> SUFFICES ASSUME NEW v \in left PROVE grid'[v] <= seen[v[1]]
      BY <1>1, <1>5
    <3>1. v \in DOMAIN grid /\ v[1] \in D_Cells
      BY <1>2, AccelerationOK
    <3>2. grid[v] <= seen[v[1]] /\ grid[v] \in Int /\ seen[v[1]] \in Int
      BY <3>1 DEF Recent, DType
    <3>. QED
      BY <1>7, <3>2
  <2>3. \A c \in D_Cells : counts'[c] > 0 => sweptAt' - seen'[c] <= D_Decay
    <3> SUFFICES ASSUME NEW c \in D_Cells, counts'[c] > 0 PROVE now - seen[c] <= D_Decay
      BY <1>1
    <3>1. PICK v \in left : v[1] = c
      BY <1>2, <1>6, VoxelsCount
    <3>2. v \in DOMAIN grid /\ ~D!Expired(v)
      BY <1>2
    <3>3. D!Accelerated(v) \in Nat /\ now - grid[v] \in Nat /\ grid[v] \in Int /\ now \in Int
      BY <3>2, AccelerationOK DEF DType
    <3>4. D_Decay - (now - grid[v]) - D!Accelerated(v) >= 0
      BY <3>2, <3>3, DecayConstants DEF D!Expired, D!GetTemporalClearingDuration
    <3>5. grid[v] <= seen[c] /\ seen[c] \in Int
      BY <3>1, <3>2 DEF Recent, DType
    <3>. QED
      BY <3>3, <3>4, <3>5, DecayConstants
  <2>. QED
    BY <1>1, <2>1, <2>2, <2>3 DEF Recent
<1>10. \A c \in D_Cells : c \notin cleared' => VoxelsAt(c) = {v \in left : v[1] = c}
  BY <1>2, <1>3 DEF VoxelsAt
<1>11. \A c : VoxelsAt(c)' = {v \in left : v[1] = c}
  BY <1>5 DEF VoxelsAt
<1>12. Backed'
  <2>1. costs' \subseteq forgotten' \cup cleared' \cup D!Swept'
    <3> SUFFICES ASSUME NEW c \in costs, c \notin forgotten, c \notin cleared' PROVE c \in D!Swept'
      BY <1>1
    <3>1. c \in D_Cells /\ Dense(c)
      BY <1>1 DEF Backed, DType
    <3>2. counts'[c] = Cardinality(VoxelsAt(c))
      BY <1>6, <1>10, <3>1
    <3>. QED
      BY <1>1, <3>1, <3>2 DEF Dense, D!Swept
  <2>2. \A c \in D_Cells : counts'[c] = Cardinality(VoxelsAt(c)')
    BY <1>6, <1>11
  <2>. QED
    BY <1>1, <2>1, <2>2 DEF Backed
<1>13. Bounded' /\ Taken' /\ Heard'
  BY <1>1 DEF Bounded, Taken, Heard
<1>. QED
  BY <1>8, <1>9, <1>12, <1>13

(* The marking: the costmap takes over what the sweep counted, and all that *)
(* changes is in the bounds.                                                *)
LEMMA UpdateROSCostmapOK == ASSUME DInv, D!UpdateROSCostmap PROVE DInv'
<1> USE DEF DInv
<1> DEFINE marked == D!MarkedPoints
<1>1. /\ phase = "swept" /\ phase' = "bounded" /\ grid' = D!MarkVoxels(marked)
      /\ seen' = [c \in D_Cells |-> IF c \in D!CellsOf(marked) THEN now ELSE seen[c]]
      /\ costs' = D!Swept /\ touched' = D!Span(touched \cup D!BoundsOf(D!Swept, cleared))
      /\ readings' = {} /\ cleared' = {}
      /\ UNCHANGED <<now, buffer, alive, counts, master, extra, resetting, sweptAt, forgotten, markThreshold>>
  BY DEF D!UpdateROSCostmap, D!sensors, D!flags
<1>2. marked \subseteq Visible
  BY DEF D!MarkedPoints, DType, Cloud
<1>3. \A v \in marked : v[1] \in D!CellsOf(marked)
  BY DEF D!CellsOf
<1>. HIDE DEF marked
<1>4. /\ DOMAIN grid' = DOMAIN grid \cup marked /\ DOMAIN grid' \subseteq Visible
      /\ \A v \in DOMAIN grid' : grid'[v] = IF v \in marked THEN now ELSE grid[v]
  BY <1>1, <1>2 DEF D!MarkVoxels, DType
<1>5. \A c \in D_Cells : seen'[c] \in Int /\ seen[c] \in Int /\ seen[c] <= seen'[c] /\ seen'[c] <= now
  BY <1>1 DEF DType, Recent
<1>6. /\ D!Swept \subseteq D_Cells /\ D!Swept \subseteq touched' /\ cleared \subseteq touched'
      /\ touched \subseteq touched' /\ touched' \subseteq D_Cells
  <2>1. D!Swept \cup cleared \subseteq D_Cells /\ touched \subseteq D_Cells
    BY DEF D!Swept, DType
  <2>2. /\ D!Swept \cup cleared \subseteq D!BoundsOf(D!Swept, cleared)
        /\ D!BoundsOf(D!Swept, cleared) \subseteq D_Cells
    BY <2>1, SpanCovers DEF D!BoundsOf
  <2>3. touched \cup D!BoundsOf(D!Swept, cleared) \subseteq D_Cells
    BY <2>1, <2>2
  <2>4. touched \cup D!BoundsOf(D!Swept, cleared) \subseteq touched' /\ touched' \subseteq D_Cells
    BY <1>1, <2>3, SpanCovers
  <2>. QED
    BY <2>1, <2>2, <2>4
<1>7. DType'
  <2>1. seen' \in [D_Cells -> Int]
    <3>1. DOMAIN seen' = D_Cells /\ seen' = [c \in DOMAIN seen' |-> seen'[c]]
      BY <1>1
    <3>. QED
      BY <1>5, <3>1
  <2>2. \A v \in DOMAIN grid' : grid'[v] \in Int
    BY <1>4 DEF DType
  <2>. QED
    BY <1>1, <1>4, <1>6, <2>1, <2>2 DEF DType
<1>8. Recent'
  <2>1. sweptAt' <= now' /\ \A c \in D_Cells : seen'[c] <= now'
    BY <1>1, <1>5 DEF Recent
  <2>2. \A v \in DOMAIN grid' : grid'[v] <= seen'[v[1]]
    <3> SUFFICES ASSUME NEW v \in DOMAIN grid' PROVE grid'[v] <= seen'[v[1]]
      OBVIOUS
    <3>1. v[1] \in D_Cells
      BY <1>4, DecayConstants
    <3>2. CASE v \in marked
      <4>1. seen'[v[1]] = now /\ grid'[v] = now /\ now \in Int
        BY <1>1, <1>3, <1>4, <3>1, <3>2 DEF DType
      <4>. QED
        BY <4>1
    <3>3. CASE v \notin marked
      <4>1. v \in DOMAIN grid /\ grid'[v] = grid[v]
        BY <1>4, <3>3
      <4>2. grid[v] \in Int /\ grid[v] <= seen[v[1]]
        BY <4>1 DEF DType, Recent
      <4>. QED
        BY <1>5, <3>1, <4>1, <4>2
    <3>. QED
      BY <3>2, <3>3
  <2>3. \A c \in D_Cells : counts[c] > 0 => sweptAt - seen'[c] <= D_Decay
    <3>1. sweptAt \in Int /\ D_Decay \in Int
      BY DecayConstants DEF DType
    <3>. QED
      BY <1>5, <3>1 DEF Recent
  <2>. QED
    BY <1>1, <2>1, <2>2, <2>3 DEF Recent, D!Swept
<1>9. Backed'
  <2> SUFFICES ASSUME NEW c \in D!Swept, c \notin forgotten PROVE Dense(c)'
    BY <1>1 DEF Backed
  <2>1. counts[c] = Cardinality(VoxelsAt(c)) /\ counts[c] \in Nat /\ counts[c] > 0 /\ counts[c] >= markThreshold
    BY <1>1 DEF Backed, D!Swept, DType
  <2>2. DOMAIN grid \subseteq DOMAIN grid' /\ DOMAIN grid' \subseteq Visible
    BY <1>4
  <2>3. /\ Cardinality({v \in DOMAIN grid : v[1] = c}) <= Cardinality({v \in DOMAIN grid' : v[1] = c})
        /\ Cardinality({v \in DOMAIN grid : v[1] = c}) \in Nat
    BY <2>2, VoxelsCount
  <2>4. Cardinality({v \in DOMAIN grid' : v[1] = c}) \in Nat
    BY <2>2, VoxelsCount
  <2>. QED
    BY <1>1, <2>1, <2>3, <2>4 DEF Dense, VoxelsAt, DType
<1>10. Bounded'
  BY <1>1, <1>6 DEF Bounded, Backed
<1>11. Taken'
  BY <1>1, <1>6 DEF Taken
<1>12. Heard'
  BY <1>1 DEF Heard
<1>. QED
  BY <1>7, <1>8, <1>9, <1>10, <1>11, <1>12

(* The master grid takes over what is in the bounds.                        *)
LEMMA UpdateCostsOK == ASSUME DInv, D!UpdateCosts PROVE DInv'
<1> USE DEF DInv
<1>1. /\ phase = "bounded" /\ phase' = "idle" /\ touched' = {}
      /\ master' = (master \ touched) \cup (costs \cap touched)
      /\ forgotten' = forgotten \ (touched \ costs)
      /\ UNCHANGED <<now, buffer, alive, readings, counts, cleared, grid, costs, resetting, extra, seen, sweptAt,
                     markThreshold>>
  BY DEF D!UpdateCosts, D!sensors
<1>2. DType'
  BY <1>1 DEF DType
<1>3. Recent' /\ Heard'
  BY <1>1 DEF Recent, Heard
<1>4. Backed'
  BY <1>1 DEF Backed, Dense, VoxelsAt
<1>5. Bounded' /\ Taken'
  BY <1>1 DEF Bounded, Taken
<1>. QED
  BY <1>2, <1>3, <1>4, <1>5

(* The buffers are told that their sources are alive, now.                  *)
LEMMA AliveOK ==
  ASSUME DInv, buffer' = [s \in D_Sources |-> D!ResetLastUpdated(buffer[s], now)],
         alive' = [s \in D_Sources |-> now]
  PROVE  buffer' \in [D_Sources -> CloudBuffer] /\ Heard'
<1>1. \A s \in D_Sources : buffer[s] \in CloudBuffer /\ now \in Int
  BY DEF DInv, DType
<1>2. \A s \in D_Sources : buffer'[s] \in CloudBuffer /\ buffer'[s].updated = now
  BY <1>1 DEF CloudBuffer, D!ResetLastUpdated
<1>3. DOMAIN buffer' = D_Sources /\ buffer' = [s \in DOMAIN buffer' |-> buffer'[s]]
  OBVIOUS
<1>4. alive' \in [D_Sources -> Int] /\ \A s \in D_Sources : alive'[s] = now
  <2>1. now \in Int
    BY DEF DInv, DType
  <2>. QED
    BY <2>1
<1>. QED
  BY <1>2, <1>3, <1>4 DEF Heard

(* One buffer changes, and its source was heard when it says.               *)
LEMMA OneBufferOK ==
  ASSUME DInv, NEW s \in D_Sources, NEW b \in CloudBuffer,
         buffer' = [buffer EXCEPT ![s] = b], alive' = [alive EXCEPT ![s] = b.updated]
  PROVE  buffer' \in [D_Sources -> CloudBuffer] /\ Heard'
<1>1. buffer \in [D_Sources -> CloudBuffer] /\ alive \in [D_Sources -> Int] /\ b.updated \in Int
  BY DEF DInv, DType, Heard, CloudBuffer
<1>2. \A q \in D_Sources : buffer'[q].updated = alive'[q]
  BY <1>1 DEF DInv, Heard
<1>3. buffer' \in [D_Sources -> CloudBuffer] /\ alive' \in [D_Sources -> Int]
  BY <1>1
<1>. QED
  BY <1>2, <1>3 DEF Heard

(* The sensors: every step that only they take part in.                     *)
LEMMA SensorsOK ==
  ASSUME DInv,
         \/ D!Tick \/ D!Activate \/ D!Deactivate \/ D!SetEnabled \/ D!ResetMaster \/ UNCHANGED D!vars
         \/ D!ObservationsResetAfterReading
  PROVE  DInv' /\ D!SilenceHasCauseStep
<1>1. now \in Nat /\ readings \subseteq Cloud /\ buffer \in [D_Sources -> CloudBuffer] /\ Heard
  BY DEF DInv, DType
<1>2. /\ UNCHANGED <<grid, counts, cleared, costs, touched, seen, sweptAt, forgotten, extra, current, readings,
                     markThreshold>>
      /\ now' \in Nat /\ now <= now'
      /\ phase' = phase \/ (phase = "read" /\ phase' = "reset")
  BY <1>1 DEF D!Tick, D!Activate, D!Deactivate, D!SetEnabled, D!ResetMaster, D!vars, D!rest, D!sensors, D!local,
              D!flags, D!ObservationsResetAfterReading
<1>3. \/ UNCHANGED <<master, resetting>>
      \/ phase # "bounded" /\ phase' = phase /\ master' = {} /\ resetting' = TRUE
  BY DEF D!Tick, D!Activate, D!Deactivate, D!SetEnabled, D!ResetMaster, D!vars, D!rest, D!flags,
         D!ObservationsResetAfterReading
<1>4. buffer' \in [D_Sources -> CloudBuffer] /\ Heard'
  <2>1. CASE UNCHANGED <<buffer, alive>>
    BY <1>1, <2>1 DEF Heard
  <2>2. CASE D!Resubscribe
    BY <2>2, AliveOK DEF D!Resubscribe
  <2>3. CASE D!ObservationsResetAfterReading
    BY <2>3, BuffersOK DEF D!ObservationsResetAfterReading
  <2>4. \/ UNCHANGED <<buffer, alive>> \/ D!Resubscribe \/ D!ObservationsResetAfterReading
    BY DEF D!Tick, D!Activate, D!Deactivate, D!SetEnabled, D!ResetMaster, D!vars, D!sensors, D!Unsubscribe
  <2>. QED
    BY <2>1, <2>2, <2>3, <2>4
<1>5. D!SilenceHasCauseStep
  BY <1>2, Zenon DEF D!SilenceHasCauseStep
<1>. QED
  BY <1>1, <1>2, <1>3, <1>4, <1>5, GridUntouched

(* Every step of the layer keeps the invariant, and only what silences a    *)
(* source, or clears the layer, makes it out of date.                       *)
LEMMA DecayOK == DInv /\ (D!Next \/ UNCHANGED D!vars) => DInv' /\ D!SilenceHasCauseStep
<1> SUFFICES ASSUME DInv, D!Next \/ UNCHANGED D!vars PROVE DInv' /\ D!SilenceHasCauseStep
  OBVIOUS
<1>1. /\ now \in Nat /\ readings \subseteq Cloud /\ buffer \in [D_Sources -> CloudBuffer] /\ Heard
  BY DEF DInv, DType
<1>2. current' = current => D!SilenceHasCauseStep
  BY Zenon DEF D!SilenceHasCauseStep
<1>3. CASE \/ D!Tick \/ D!Activate \/ D!Deactivate \/ D!SetEnabled \/ D!ResetMaster \/ UNCHANGED D!vars
           \/ D!ObservationsResetAfterReading
  BY <1>1, <1>3, SensorsOK
<1>4. ASSUME NEW s \in D_Sources, NEW shape \in D_Shapes[s], NEW tfOk \in BOOLEAN, D!Callback(s, shape, tfOk)
      PROVE  DInv' /\ D!SilenceHasCauseStep
  <2> DEFINE cloud == [source |-> s, stamp |-> now, voxels |-> shape]
             b == D!BufferROSCloud(buffer[s], cloud, D_Conf[s], now, tfOk)
  <2>1. cloud \in Cloud
    BY <1>1, DecayConstants DEF Cloud
  <2>2. /\ buffer' = [buffer EXCEPT ![s] = b]
        /\ alive' = IF tfOk /\ ~D!OnlyClears(s) THEN [alive EXCEPT ![s] = now] ELSE alive
        /\ UNCHANGED <<now, phase, readings, counts, cleared, touched, grid, costs, master, current, resetting, extra,
                       seen, sweptAt, forgotten, markThreshold>>
    BY <1>4 DEF D!Callback, D!local, D!flags
  <2>3. b \in CloudBuffer /\ b.updated = IF tfOk /\ ~D!OnlyClears(s) THEN now ELSE buffer[s].updated
    <3> DEFINE old == buffer[s]
    <3>1. old \in CloudBuffer /\ now \in Int
      BY <1>1
    <3>. HIDE DEF old, cloud
    <3>2. /\ D!BufferROSCloud(old, cloud, D_Conf[s], now, tfOk) \in CloudBuffer
          /\ D!BufferROSCloud(old, cloud, D_Conf[s], now, tfOk).updated
               = IF tfOk /\ ~D!OnlyClears(s) THEN now ELSE old.updated
      BY <2>1, <3>1, CloudBuffered
    <3>. QED
      BY <3>2 DEF old
  <2>. HIDE DEF b, cloud
  <2>4. alive' = [alive EXCEPT ![s] = b.updated]
    <3>1. alive \in [D_Sources -> Int] /\ buffer[s].updated = alive[s]
      BY <1>1 DEF Heard
    <3>. QED
      BY <2>2, <2>3, <3>1
  <2>5. buffer' \in [D_Sources -> CloudBuffer] /\ Heard'
    BY <1>1, <2>2, <2>3, <2>4, OneBufferOK
  <2>6. now' \in Nat /\ now <= now' /\ readings' \subseteq Cloud
    BY <1>1, <2>2
  <2>. QED
    BY <1>2, <2>2, <2>5, <2>6, GridUntouched
<1>5. ASSUME NEW s \in D_Sources, D!BufferEnabler(s)
      PROVE  DInv' /\ D!SilenceHasCauseStep
  <2>1. UNCHANGED <<now, phase, readings, counts, cleared, touched, costs, master, current, resetting, extra, seen, sweptAt,
                  markThreshold>>
    BY <1>5 DEF D!BufferEnabler, D!local
  <2>2. CASE enabled[s]
    <3>1. D!ResetGrid /\ UNCHANGED <<buffer, alive>>
      BY <1>5, <2>2 DEF D!BufferEnabler
    <3>2. Heard'
      BY <1>1, <3>1 DEF Heard
    <3>. QED
      BY <1>1, <1>2, <2>1, <3>1, <3>2, GridReset
  <2>3. CASE ~enabled[s]
    <3> DEFINE b == D!ResetLastUpdated(buffer[s], now)
    <3>1. /\ buffer' = [buffer EXCEPT ![s] = b] /\ alive' = [alive EXCEPT ![s] = now]
          /\ UNCHANGED <<grid, forgotten>>
      BY <1>5, <2>3 DEF D!BufferEnabler
    <3>2. buffer[s] \in CloudBuffer /\ now \in Int
      BY <1>1
    <3>3. b \in CloudBuffer /\ b.updated = now
      BY <3>2 DEF D!ResetLastUpdated, CloudBuffer
    <3>. HIDE DEF b
    <3>4. buffer' \in [D_Sources -> CloudBuffer] /\ Heard'
      BY <1>1, <3>1, <3>3, OneBufferOK
    <3>5. now' \in Nat /\ now <= now' /\ readings' \subseteq Cloud
      BY <1>1, <2>1
    <3>. QED
      BY <1>2, <2>1, <3>1, <3>4, <3>5, GridUntouched
  <2>. QED
    BY <2>2, <2>3
<1>6. CASE D!Reset
  <2>1. /\ resetting /\ resetting' = FALSE /\ phase \in {"idle", "bounded"} /\ costs' = {} /\ D!ResetGrid
        /\ buffer' = [s \in D_Sources |-> D!ResetLastUpdated(buffer[s], now)]
        /\ alive' = [s \in D_Sources |-> now]
        /\ UNCHANGED <<now, phase, readings, counts, cleared, touched, master, extra, seen, sweptAt, markThreshold>>
    BY <1>6 DEF D!Reset, D!local
  <2>2. buffer' \in [D_Sources -> CloudBuffer] /\ Heard'
    BY <2>1, AliveOK
  <2>3. DInv'
    BY <2>1, <2>2, GridReset
  <2>. QED
    BY <2>1, <2>3 DEF D!SilenceHasCauseStep
<1>7. ASSUME NEW kept \in SUBSET D_Cells, D!ClearArea(kept)
      PROVE  DInv' /\ D!SilenceHasCauseStep
  <2>1. extra'
    BY <1>7 DEF D!ClearArea
  <2>. QED
    BY <1>7, <2>1, ClearAreaOK DEF D!SilenceHasCauseStep
<1>8. CASE D!ClearFrustums
  <2>1. current' = current
    BY <1>8 DEF D!ClearFrustums, D!flags
  <2>. QED
    BY <1>2, <1>8, <2>1, ClearFrustumsOK
<1>9. CASE D!UpdateROSCostmap
  <2>1. current' = current
    BY <1>9 DEF D!UpdateROSCostmap, D!flags
  <2>. QED
    BY <1>2, <1>9, <2>1, UpdateROSCostmapOK
<1>10. CASE D!UpdateCosts
  <2>1. D!SilenceHasCauseStep
    BY <1>10, Zenon DEF D!UpdateCosts, D!SilenceHasCauseStep
  <2>. QED
    BY <1>10, <2>1, UpdateCostsOK
<1>11. ASSUME NEW n \in D_MarkThresholds, D!SetMarkThreshold(n)
      PROVE  DInv' /\ D!SilenceHasCauseStep
  <2>1. current' = current
    BY <1>11 DEF D!SetMarkThreshold
  <2>. QED
    BY <1>2, <1>11, <2>1, SetMarkThresholdOK
<1>. QED
  BY <1>3, <1>4, <1>5, <1>6, <1>7, <1>8, <1>9, <1>10, <1>11, ReadBuffersOK DEF D!Next

-----------------------------------------------------------------------------
(* What holds of 0 and goes on holds of all.                                *)
LEMMA StepByStep ==
  ASSUME NEW n \in Nat, NEW T, 0 \in T, \A i \in 1..n : i - 1 \in T => i \in T
  PROVE  0..n \subseteq T
<1> DEFINE rest == (0..n) \ T
<1>1. SUFFICES ASSUME rest # {} PROVE FALSE
  OBVIOUS
<1>2. PICK m \in rest : \A k \in rest : m <= k
  <2>1. rest \subseteq Nat
    OBVIOUS
  <2> HIDE DEF rest
  <2>. QED
    BY <1>1, <2>1, LeastExists
<1>3. m \in 1..n /\ m - 1 \in 0..n
  BY <1>2
<1>4. m - 1 \in T
  BY <1>2, <1>3
<1>. QED
  BY <1>2, <1>3, <1>4

(* A recursion over 1..n with steps in S has a result there.                *)
StepsIn(S, n) == [(1..n) \X S -> S]

Follows(f, n, base, F) == f[0] = base /\ \A i \in 1..n : f[i] = F[<<i, f[i - 1]>>]

LEMMA RecursionExists ==
  ASSUME NEW n \in Nat, NEW S, NEW base \in S, NEW F \in StepsIn(S, n)
  PROVE  \E f \in [0..n -> S] : Follows(f, n, base, F)
<1> DEFINE Upto(f, k) == f[0] = base /\ \A i \in 1..k : f[i] = F[<<i, f[i - 1]>>]
           T == {k \in 0..n : \E f \in [0..k -> S] : Upto(f, k)}
<1>1. 0 \in T
  <2>1. [i \in 0..0 |-> base] \in [0..0 -> S] /\ Upto([i \in 0..0 |-> base], 0)
    OBVIOUS
  <2> HIDE DEF Upto
  <2>. QED
    BY <2>1
<1>2. ASSUME NEW k \in 1..n, k - 1 \in T PROVE k \in T
  <2>1. PICK f \in [0..k - 1 -> S] : Upto(f, k - 1)
    BY <1>2
  <2> DEFINE last == F[<<k, f[k - 1]>>]
             g == [i \in 0..k |-> IF i < k THEN f[i] ELSE last]
  <2>2. last \in S
    BY <2>1 DEF StepsIn
  <2>3. g \in [0..k -> S]
    <3>1. \A i \in 0..k : i < k => i \in 0..k - 1
      OBVIOUS
    <3> HIDE DEF last
    <3>. QED
      BY <2>1, <2>2, <3>1
  <2>4. g[0] = base /\ g[k] = last /\ \A i \in 0..k - 1 : g[i] = f[i]
    <3>1. 0 \in 0..k /\ 0 < k /\ k \in 0..k
      OBVIOUS
    <3> HIDE DEF last
    <3>. QED
      BY <2>1, <3>1
  <2>5. ASSUME NEW i \in 1..k PROVE g[i] = F[<<i, g[i - 1]>>]
    <3>1. i - 1 \in 0..k - 1 /\ (i = k \/ i \in 1..k - 1)
      OBVIOUS
    <3> HIDE DEF g
    <3>2. CASE i = k
      BY <2>4, <3>1, <3>2
    <3>3. CASE i \in 1..k - 1
      BY <2>1, <2>4, <3>1, <3>3
    <3>. QED
      BY <3>1, <3>2, <3>3
  <2>6. Upto(g, k)
    <3> HIDE DEF g
    <3>. QED
      BY <2>4, <2>5
  <2> HIDE DEF Upto, g
  <2>. QED
    BY <2>3, <2>6
<1>3. 0..n \subseteq T
  <2> HIDE DEF T
  <2>. QED
    BY <1>1, <1>2, StepByStep
<1>4. n \in T
  BY <1>3
<1>. QED
  BY <1>4 DEF Follows

-----------------------------------------------------------------------------
(* The range sensor.  What a cell believes after a reading is never         *)
(* certain, and likely enough where the object was seen.                    *)
Beliefs == [R_Cells -> 0..253]

Ranges == R_Cells \cup {R!MaxRange, R!NoObject, R!Object, R!Invalid}

LEMMA DivisionBounds ==
  ASSUME NEW a \in Int, NEW d \in Nat \ {0}
  PROVE  a \div d \in Int /\ d * (a \div d) <= a /\ a < d * ((a \div d) + 1)
<1>1. d * (a \div d) <= a /\ a < d * (a \div d) + d
  OBVIOUS
<1>2. \A q \in Int : d * (q + 1) = d * q + d
  OBVIOUS
<1>. QED
  BY <1>1, <1>2

LEMMA FactorBounds ==
  ASSUME NEW d \in Nat \ {0}, NEW i \in Int, NEW j \in Int, d * i < d * j
  PROVE  i < j
  OBVIOUS

LEMMA QuotientInRange ==
  ASSUME NEW a \in Int, NEW d \in Nat \ {0}, NEW lo \in Int, NEW hi \in Int, d * lo <= a, a < d * hi
  PROVE  a \div d \in Int /\ lo <= a \div d /\ a \div d < hi
<1> DEFINE q == a \div d
<1>1. q \in Int /\ d * q <= a /\ a < d * (q + 1)
  BY DivisionBounds
<1> HIDE DEF q
<1>2. d * q < d * hi /\ d * lo < d * (q + 1)
  <2>1. d * q \in Int /\ d * (q + 1) \in Int /\ d * lo \in Int /\ d * hi \in Int
    BY <1>1
  <2>. QED
    BY <1>1, <2>1
<1>3. q < hi /\ lo < q + 1
  BY <1>1, <1>2, FactorBounds
<1>. QED
  BY <1>1, <1>3 DEF q

LEMMA BayesBounds ==
  ASSUME NEW cost \in 0..253, NEW sensor \in 0..99
  PROVE  /\ R!Bayes(cost, sensor) \in 0..253
         /\ cost = 233 /\ sensor >= 50 => R!Bayes(cost, sensor) > 203
<1> DEFINE occ == sensor * cost
           free == (100 - sensor) * (254 - cost)
<1>1. occ \in Nat /\ free \in Nat \ {0}
  <2>1. \A x1, x2 \in Nat : x1 * x2 \in Nat
    OBVIOUS
  <2>2. \A x1, x2 \in Nat : x1 > 0 /\ x2 > 0 => x1 * x2 > 0
    OBVIOUS
  <2>3. 100 - sensor \in Nat /\ 254 - cost \in Nat /\ 100 - sensor > 0 /\ 254 - cost > 0 /\ sensor \in Nat /\ cost \in Nat
    OBVIOUS
  <2>. QED
    BY <2>1, <2>2, <2>3
<1>2. cost = 233 /\ sensor >= 50 => 50 * occ >= 204 * free
  OBVIOUS
<1>3. R!Bayes(cost, sensor) = IF occ + free = 0 THEN -1 ELSE (254 * occ) \div (occ + free)
  BY DEF R!Bayes
<1> HIDE DEF occ, free
<1>4. occ + free \in Nat \ {0} /\ occ + free # 0 /\ 254 * occ \in Int
  BY <1>1
<1>5. (occ + free) * 0 <= 254 * occ /\ 254 * occ < (occ + free) * 254
  BY <1>1
<1>6. (254 * occ) \div (occ + free) \in 0..253
  <2> DEFINE q == (254 * occ) \div (occ + free)
  <2>1. q \in Int /\ 0 <= q /\ q < 254
    BY <1>4, <1>5, QuotientInRange
  <2> HIDE DEF q
  <2>2. q \in 0..253
    BY <2>1
  <2>. QED
    BY <2>2 DEF q
<1>7. ASSUME cost = 233, sensor >= 50 PROVE (254 * occ) \div (occ + free) > 203
  <2>1. (occ + free) * 204 <= 254 * occ
    BY <1>1, <1>2, <1>7
  <2>2. 204 <= (254 * occ) \div (occ + free) /\ (254 * occ) \div (occ + free) \in Int
    BY <1>4, <1>5, <2>1, QuotientInRange
  <2>. QED
    BY <2>2
<1>. QED
  BY <1>3, <1>4, <1>6, <1>7

LEMMA AppliedOK ==
  ASSUME NEW b \in Beliefs, NEW msg
  PROVE  /\ R!Applied(b, msg) \in Beliefs
         /\ msg.target \in R_Cells /\ ~msg.clear => R!Applied(b, msg)[msg.target] > 203
<1> DEFINE marked == R!MarkTarget(b, msg.target)
           sensor(c) == IF msg.clear THEN 0 ELSE R!SensorModel(msg.target, c)
<1>1. marked \in Beliefs /\ (msg.target \in R_Cells => marked[msg.target] = 233)
  <2>1. marked = [b EXCEPT ![msg.target] = 233]
    BY DEF R!MarkTarget
  <2>2. b \in [R_Cells -> 0..253] /\ 233 \in 0..253
    BY DEF Beliefs
  <2> HIDE DEF marked
  <2>3. marked \in [R_Cells -> 0..253]
    BY <2>1, <2>2
  <2>. QED
    BY <2>1, <2>2, <2>3 DEF Beliefs
<1>2. \A c \in R_Cells : sensor(c) \in 0..99
  <2>1. (100 - R_Certainty) \div 2 \in 0..99 /\ 50 + R_Certainty \div 2 \in 0..99
    BY RangeAssumption
  <2>. QED
    BY <2>1 DEF R!SensorModel
<1>3. R!Applied(b, msg) = [c \in R_Cells |-> R!Bayes(marked[c], sensor(c))]
  BY DEF R!Applied, R!UpdateCell
<1>4. \A c \in R_Cells : marked[c] \in 0..253
  BY <1>1 DEF Beliefs
<1>5. ASSUME msg.target \in R_Cells, ~msg.clear PROVE sensor(msg.target) \in 50..99
  <2>1. msg.target \in Int
    BY <1>5, RangeAssumption
  <2>2. sensor(msg.target) = 50 + R_Certainty \div 2
    BY <1>5, <2>1 DEF R!SensorModel
  <2>3. 50 + R_Certainty \div 2 \in 50..99
    BY RangeAssumption
  <2>. QED
    BY <2>2, <2>3
<1> HIDE DEF marked, sensor
<1>6. \A c \in R_Cells : R!Bayes(marked[c], sensor(c)) \in 0..253
  BY <1>2, <1>4, BayesBounds
<1>7. R!Applied(b, msg) \in Beliefs
  BY <1>3, <1>6 DEF Beliefs
<1>8. ASSUME msg.target \in R_Cells, ~msg.clear PROVE R!Applied(b, msg)[msg.target] > 203
  <2>1. sensor(msg.target) \in 0..99 /\ sensor(msg.target) >= 50
    BY <1>5, <1>8
  <2>2. R!Bayes(233, sensor(msg.target)) > 203
    <3>1. \A cost \in 0..253 : cost = 233 => R!Bayes(cost, sensor(msg.target)) > 203
      BY <2>1, BayesBounds
    <3>2. 233 \in 0..253
      OBVIOUS
    <3>. QED
      BY <3>1, <3>2
  <2>. QED
    BY <1>1, <1>3, <1>8, <2>2
<1>. QED
  BY <1>7, <1>8

(* The last of some messages.                                               *)
LEMMA LastExists ==
  ASSUME NEW n \in Nat, NEW used, used \subseteq 1..n, used # {}
  PROVE  LET last == CHOOSE i \in used : \A j \in used : j <= i
         IN last \in used /\ \A j \in used : j <= last
<1> DEFINE left == {n - i : i \in used}
<1>1. left \subseteq Nat /\ left # {}
  <2>1. \A i \in 1..n : n - i \in Nat
    OBVIOUS
  <2>. QED
    BY <2>1
<1>2. PICK m \in left : \A k \in left : m <= k
  <2> HIDE DEF left
  <2>. QED
    BY <1>1, LeastExists
<1>3. PICK i \in used : m = n - i
  BY <1>2
<1>4. \A j \in used : j <= i
  <2>1. ASSUME NEW j \in used PROVE j <= i
    <3>1. n - j \in left /\ i \in 1..n /\ j \in 1..n
      OBVIOUS
    <3>2. n - i <= n - j
      BY <1>2, <1>3, <3>1
    <3>. QED
      BY <3>1, <3>2
  <2>. QED
    BY <2>1
<1>. QED
  BY <1>3, <1>4

(* What a sequence of messages leaves is never certain, and the object of   *)
(* the last one is believed in.                                             *)
LEMMA AllAppliedOK ==
  ASSUME NEW b \in Beliefs, NEW msgs, Len(msgs) \in Nat, NEW used, used \subseteq 1..Len(msgs)
  PROVE  LET all1 == R!AllApplied(b, msgs, used)
             last == CHOOSE i \in used : \A j \in used : j <= i
         IN /\ all1 \in Beliefs
            /\ used # {} /\ msgs[last].target \in R_Cells /\ ~msgs[last].clear => all1[msgs[last].target] > 203
<1> DEFINE n == Len(msgs)
           F == [s \in (1..n) \X Beliefs |-> IF s[1] \in used THEN R!Applied(s[2], msgs[s[1]]) ELSE s[2]]
           Steps(f) == f = [i \in 0..n |-> IF i = 0 THEN b ELSE IF i \in used THEN R!Applied(f[i - 1], msgs[i]) ELSE f[i - 1]]
           after == CHOOSE f : Steps(f)
           last == CHOOSE i \in used : \A j \in used : j <= i
<1>1. F \in StepsIn(Beliefs, n)
  BY AppliedOK DEF StepsIn
<1>2. \A i \in 1..n, c \in Beliefs : F[<<i, c>>] = IF i \in used THEN R!Applied(c, msgs[i]) ELSE c
  OBVIOUS
<1>3. PICK f \in [0..n -> Beliefs] : Follows(f, n, b, F)
  <2>1. n \in Nat
    OBVIOUS
  <2> HIDE DEF F, n
  <2>. QED
    BY <1>1, <2>1, RecursionExists
<1>4. \A i \in 1..n : f[i] = IF i \in used THEN R!Applied(f[i - 1], msgs[i]) ELSE f[i - 1]
  <2>1. \A i \in 1..n : i - 1 \in 0..n
    OBVIOUS
  <2> HIDE DEF F
  <2>. QED
    BY <1>2, <1>3, <2>1 DEF Follows
<1>5. Steps(f)
  <2>1. \A i \in 0..n : i # 0 => i \in 1..n
    OBVIOUS
  <2>2. f = [i \in 0..n |-> f[i]]
    OBVIOUS
  <2>3. \A i \in 0..n : f[i] = IF i = 0 THEN b ELSE IF i \in used THEN R!Applied(f[i - 1], msgs[i]) ELSE f[i - 1]
    BY <1>3, <1>4, <2>1 DEF Follows
  <2>. QED
    BY <2>2, <2>3
<1>6. Steps(after)
  <2> HIDE DEF Steps
  <2>. QED
    BY <1>5
<1>7. R!AllApplied(b, msgs, used) = after[n]
  BY DEF R!AllApplied
<1> HIDE DEF after, F
<1>8. /\ after[0] = b
      /\ \A i \in 1..n : after[i] = IF i \in used THEN R!Applied(after[i - 1], msgs[i]) ELSE after[i - 1]
  <2> DEFINE value(i) == IF i = 0 THEN b ELSE IF i \in used THEN R!Applied(after[i - 1], msgs[i]) ELSE after[i - 1]
  <2>1. after = [i \in 0..n |-> value(i)]
    BY <1>6, Zenon
  <2>2. \A i \in 0..n : after[i] = value(i)
    <3> HIDE DEF value, n
    <3>. QED
      BY <2>1
  <2>3. 0 \in 0..n /\ \A i \in 1..n : i \in 0..n /\ i # 0
    OBVIOUS
  <2>4. after[0] = value(0)
    BY <2>2, <2>3, Zenon
  <2>5. ASSUME NEW i \in 1..n PROVE after[i] = value(i) /\ i # 0
    BY <2>2, <2>3, Zenon
  <2> HIDE DEF n
  <2>. QED
    BY <2>4, <2>5
<1>9. \A i \in 0..n : after[i] \in Beliefs
  <2> DEFINE T == {i \in 0..n : after[i] \in Beliefs}
  <2>1. 0 \in T
    BY <1>8
  <2>2. \A i \in 1..n : i - 1 \in T => i \in T
    BY <1>8, AppliedOK
  <2>3. 0..n \subseteq T
    <3> HIDE DEF T
    <3>. QED
      BY <2>1, <2>2, StepByStep
  <2>. QED
    BY <2>3
<1>10. ASSUME used # {}, msgs[last].target \in R_Cells, ~msgs[last].clear PROVE after[n][msgs[last].target] > 203
  <2>1. last \in used /\ \A j \in used : j <= last
    BY <1>10, LastExists
  <2> HIDE DEF last
  <2>2. last \in 1..n /\ last - 1 \in 0..n
    BY <2>1
  <2>3. after[last] = R!Applied(after[last - 1], msgs[last])
    BY <1>8, <2>1, <2>2
  <2>4. after[last][msgs[last].target] > 203
    BY <1>9, <1>10, <2>2, <2>3, AppliedOK
  <2> DEFINE T == {i \in 0..n : i >= last => after[i] = after[last]}
  <2>5. 0 \in T
    BY <2>2
  <2>6. ASSUME NEW i \in 1..n, i - 1 \in T PROVE i \in T
    <3>1. CASE i > last
      <4>1. i \notin used /\ i - 1 >= last
        BY <2>1, <2>2, <3>1
      <4>. QED
        BY <1>8, <2>6, <4>1
    <3>2. CASE i <= last
      <4>1. i >= last => i = last
        BY <2>2, <3>2
      <4>. QED
        BY <4>1
    <3>. QED
      BY <2>2, <3>1, <3>2
  <2>7. 0..n \subseteq T
    <3> HIDE DEF T
    <3>. QED
      BY <2>5, <2>6, StepByStep
  <2>8. after[n] = after[last]
    BY <2>2, <2>7
  <2>. QED
    BY <2>4, <2>8
<1>11. n \in 0..n
  OBVIOUS
<1>. QED
  BY <1>7, <1>9, <1>10, <1>11

(* A reading that is used has its target in the cone.                       *)
LEMMA TargetInCone ==
  ASSUME NEW r \in Ranges, R!ProcessRangeMsg(r).valid
  PROVE  R!ProcessRangeMsg(r).target \in R_Cells /\ R!ProcessRangeMsg(r).clear \in BOOLEAN
<1>1. 1 \in R_Cells /\ R!Far \in R_Cells
  <2>1. PICK n \in R_Cells : R_Cells = 1..n
    BY RangeAssumption
  <2>2. n \in Int /\ n >= 1
    BY <2>1
  <2>3. 1 \in R_Cells /\ \A d \in R_Cells : d <= n
    BY <2>1, <2>2
  <2>4. R!Far \in R_Cells
    BY <2>3 DEF R!Far
  <2>. QED
    BY <2>3, <2>4
<1>2. CASE r \in {R!Object, R!NoObject}
  <2>1. R!ProcessRangeMsg(r) = R!ProcessFixedRangeMsg(r)
    BY <1>2 DEF R!ProcessRangeMsg
  <2>2. R!Object # R!NoObject
    BY DEF R!Object, R!NoObject
  <2>3. CASE r = R!Object
    <3>1. R!ProcessRangeMsg(r) = [valid |-> TRUE, clear |-> FALSE, target |-> 1]
      BY <2>1, <2>2, <2>3 DEF R!ProcessFixedRangeMsg
    <3>. QED
      BY <1>1, <3>1
  <2>4. CASE r = R!NoObject
    <3>1. R!ProcessRangeMsg(r) = [valid |-> R_ClearOnMax, clear |-> R_ClearOnMax, target |-> 1]
      BY <2>1, <2>2, <2>4 DEF R!ProcessFixedRangeMsg
    <3>. QED
      BY <1>1, <3>1, RangeAssumption
  <2>. QED
    BY <1>2, <2>3, <2>4
<1>3. CASE r \notin {R!Object, R!NoObject}
  <2>1. R!ProcessRangeMsg(r) = R!ProcessVariableRangeMsg(r)
    BY <1>3 DEF R!ProcessRangeMsg
  <2>2. CASE r = R!MaxRange
    <3>1. R!ProcessRangeMsg(r) = [valid |-> TRUE, clear |-> R_ClearOnMax, target |-> R!Far]
      BY <2>1, <2>2 DEF R!ProcessVariableRangeMsg
    <3>. QED
      BY <1>1, <3>1, RangeAssumption
  <2>3. CASE r # R!MaxRange
    <3>1. R!ProcessRangeMsg(r) = [valid |-> r # R!Invalid, clear |-> FALSE, target |-> r]
      BY <2>1, <2>3 DEF R!ProcessVariableRangeMsg
    <3>2. ASSUME r = R!Invalid PROVE FALSE
      <4>1. r # R!Invalid <=> FALSE
        BY <3>2
      <4>2. R!ProcessRangeMsg(r) = [valid |-> FALSE, clear |-> FALSE, target |-> r]
        BY <2>1, <2>3, <4>1, Zenon DEF R!ProcessVariableRangeMsg
      <4>. QED
        BY <4>2
    <3>3. r # R!Invalid
      BY <3>2
    <3>. QED
      BY <1>3, <2>3, <3>1, <3>3 DEF Ranges
  <2>. QED
    BY <2>2, <2>3
<1>. QED
  BY <1>2, <1>3

(* Between the bounds and the costs of an update the layer is sure enough   *)
(* of the object of the last reading, and the update is about every cell.   *)
RType ==
  belief \in Beliefs /\ bounded \in BOOLEAN /\ rangeMsgs \in Seq(Ranges)

ObjectBelieved ==
  applied # <<>> /\ ~applied[1].clear =>
    IF bounded THEN /\ applied[1].target \in R_Cells /\ touched = R_Cells
                    /\ belief[applied[1].target] > 203
    ELSE master[applied[1].target] = "lethal"

RInv == RType /\ ObjectBelieved

LEMMA RangeInitOK ==
  /\ R!Init => RInv
  /\ [c \in R_Cells |-> R!DefaultValue] \in Beliefs
<1>1. R!DefaultValue = 127
  BY DEF R!DefaultValue, R!ToCost
<1>2. [c \in R_Cells |-> R!DefaultValue] \in Beliefs
  BY <1>1 DEF Beliefs
<1>3. ASSUME R!Init PROVE RInv
  <2>1. belief = [c \in R_Cells |-> R!DefaultValue] /\ bounded = FALSE /\ rangeMsgs = <<>> /\ applied = <<>>
    BY <1>3 DEF R!Init
  <2>2. belief \in Beliefs
    BY <1>2, <2>1, Zenon
  <2>3. ObjectBelieved
    BY <2>1, Zenon DEF ObjectBelieved
  <2>4. bounded \in BOOLEAN /\ rangeMsgs \in Seq(Ranges)
    <3>1. <<>> \in Seq(Ranges)
      OBVIOUS
    <3>. QED
      BY <2>1, <3>1, Zenon
  <2>. QED
    BY <2>2, <2>3, <2>4, Zenon DEF RInv, RType
<1>. QED
  BY <1>2, <1>3

LEMMA RangeBoundsOK == ASSUME RInv, NEW lost, R!UpdateBounds(lost) PROVE RInv'
<1> DEFINE msgs == [i \in DOMAIN rangeMsgs |-> R!ProcessRangeMsg(rangeMsgs[i])]
           used == {i \in DOMAIN msgs \ lost : msgs[i].valid}
           last == CHOOSE i \in used : \A j \in used : j <= i
<1>1. /\ bounded' = TRUE /\ rangeMsgs' = <<>>
      /\ belief' = R!AllApplied(belief, msgs, used)
      /\ touched' = IF used = {} THEN {} ELSE R_Cells
      /\ applied' = IF used = {} THEN <<>> ELSE <<msgs[last]>>
  BY Zenon DEF R!UpdateBounds
<1>2. /\ Len(rangeMsgs) \in Nat /\ DOMAIN rangeMsgs = 1..Len(rangeMsgs)
      /\ \A i \in 1..Len(rangeMsgs) : rangeMsgs[i] \in Ranges
  BY DEF RInv, RType
<1>3. /\ msgs = [i \in 1..Len(rangeMsgs) |-> msgs[i]] /\ Len(msgs) = Len(rangeMsgs)
      /\ \A i \in 1..Len(rangeMsgs) : msgs[i] = R!ProcessRangeMsg(rangeMsgs[i])
  BY <1>2
<1>4. used \subseteq 1..Len(msgs) /\ Len(msgs) \in Nat /\ \A i \in used : msgs[i].valid
  BY <1>2, <1>3
<1> HIDE DEF msgs
<1>5. ASSUME used # {} PROVE msgs[last].target \in R_Cells
  <2>1. last \in used
    BY <1>4, <1>5, LastExists
  <2> HIDE DEF last, used
  <2>2. last \in 1..Len(rangeMsgs) /\ msgs[last].valid
    BY <1>3, <1>4, <2>1
  <2>. QED
    BY <1>2, <1>3, <2>2, TargetInCone
<1>6. /\ belief' \in Beliefs
      /\ used # {} /\ ~msgs[last].clear => belief'[msgs[last].target] > 203
  <2>1. belief \in Beliefs
    BY DEF RInv, RType
  <2>2. used \subseteq 1..Len(msgs)
    BY <1>4
  <2> HIDE DEF used
  <2>3. /\ R!AllApplied(belief, msgs, used) \in Beliefs
        /\ used # {} /\ msgs[last].target \in R_Cells /\ ~msgs[last].clear
             => R!AllApplied(belief, msgs, used)[msgs[last].target] > 203
    BY <1>4, <2>1, <2>2, AllAppliedOK
  <2> HIDE DEF last
  <2>. QED
    BY <1>1, <1>5, <2>3
<1> HIDE DEF used, last
<1>7. RType'
  BY <1>1, <1>6 DEF RType
<1>8. ObjectBelieved'
  <2>1. SUFFICES ASSUME used # {}, ~msgs[last].clear
                 PROVE  msgs[last].target \in R_Cells /\ belief'[msgs[last].target] > 203
    BY <1>1 DEF ObjectBelieved
  <2>. QED
    BY <1>5, <1>6, <2>1
<1>. QED
  BY <1>7, <1>8 DEF RInv

LEMMA RangeOK == RInv /\ (R!Next \/ UNCHANGED R!vars) => RInv'
<1> USE DEF RInv
<1>1. SUFFICES ASSUME RInv, R!Next \/ UNCHANGED R!vars PROVE RInv'
  OBVIOUS
<1>2. CASE UNCHANGED R!vars
  BY <1>1, <1>2 DEF R!vars, RType, ObjectBelieved
<1>3. CASE R!Tick
  BY <1>1, <1>3 DEF R!Tick, RType, ObjectBelieved
<1>4. ASSUME NEW range \in R_Cells \cup {R!MaxRange, R!NoObject, R!Object, R!Invalid},
             R!BufferIncomingRangeMsg(range)
      PROVE  RInv'
  <2>1. rangeMsgs' \in Seq(Ranges)
    <3>1. range \in Ranges
      BY <1>4 DEF Ranges
    <3>2. rangeMsgs \in Seq(Ranges) /\ rangeMsgs' = Append(rangeMsgs, range)
      BY <1>1, <1>4 DEF R!BufferIncomingRangeMsg, RType
    <3>. QED
      BY <3>1, <3>2
  <2>. QED
    BY <1>1, <1>4, <2>1 DEF R!BufferIncomingRangeMsg, RType, ObjectBelieved
<1>5. CASE R!UpdateCosts
  <2>1. /\ bounded /\ bounded' = FALSE /\ UNCHANGED <<rangeMsgs, belief, applied>>
        /\ \A c \in R_Cells : c \in touched /\ belief[c] > R!MarkThreshold => master'[c] = "lethal"
    BY <1>5 DEF R!UpdateCosts
  <2>2. R!MarkThreshold = 203
    BY DEF R!MarkThreshold, R!ToCost
  <2>. QED
    BY <1>1, <2>1, <2>2 DEF RType, ObjectBelieved
<1>6. CASE R!Reset
  <2>1. belief' \in Beliefs
    BY <1>6, RangeInitOK DEF R!Reset
  <2>. QED
    BY <1>1, <1>6, <2>1 DEF R!Reset, RType, ObjectBelieved
<1>7. ASSUME NEW lost, R!UpdateBounds(lost) PROVE RInv'
  BY <1>1, <1>7, RangeBoundsOK
<1>. QED
  BY <1>1, <1>2, <1>3, <1>4, <1>5, <1>6, <1>7 DEF R!Next

-----------------------------------------------------------------------------
(* The voxel layer.  A column has its marks within its height; its cost is  *)
(* what the thresholds say of its bits; and it is free when it was seen to  *)
(* be free at all its heights.                                              *)
Columns == [hi : SUBSET V!AllBits, lo : SUBSET V!AllBits]

Costs == {"unknown", "free", "lethal"}

VParams ==
  /\ sizeZ \in 1..V_Bits
  /\ unknownThreshold \in Nat /\ markThreshold \in Nat /\ asked \in Nat

Within(col) == col \in Columns /\ col.hi \subseteq 0..sizeZ - 1

KnownFree(col) == \A z \in 0..sizeZ - 1 : z \notin col.hi /\ z \notin col.lo

Agrees(col, cost) ==
  /\ cost = "lethal" <=> ~V!BitsBelowThreshold(col.hi, markThreshold)
  /\ cost = "free" => V!BitsBelowThreshold(V!UnknownBits(col), unknownThreshold)
  /\ unknownThreshold = asked + (V_Bits - sizeZ) /\ KnownFree(col) => cost = "free"

(* Columns and costs agree but for the old ones, and for those whose cost   *)
(* is gone.                                                                 *)
GoodMap(m, old, gone) ==
  /\ m.columns \in [V!Cells -> Columns] /\ m.costs \in [V!Cells -> Costs]
  /\ \A c \in V!Cells : Within(m.columns[c])
  /\ \A c \in V!Cells \ old : Agrees(m.columns[c], m.costs[c]) \/ (c \in gone /\ m.costs[c] = "unknown")

VInv == VParams /\ GoodMap([columns |-> columns, costs |-> costs], stale, wiped)

LEMMA VoxelCardinality == \A S : V!Cardinality(S) = Cardinality(S)
  BY DEF V!Cardinality, Cardinality

LEMMA FewerBits ==
  ASSUME NEW less, NEW more, less \subseteq more, more \subseteq V!AllBits, NEW t \in Nat,
         V!BitsBelowThreshold(more, t)
  PROVE  V!BitsBelowThreshold(less, t)
<1>1. IsFiniteSet(V!AllBits)
  <2>1. V_Bits - 1 \in Int
    BY VoxelAssumption
  <2>. QED
    BY <2>1, FS_Interval DEF V!AllBits
<1>2. IsFiniteSet(more)
  BY <1>1, FS_Subset
<1>3. /\ Cardinality(less) \in Nat /\ Cardinality(more) \in Nat
      /\ Cardinality(less) <= Cardinality(more)
  BY <1>2, FS_Subset, FS_CardinalityType
<1>. QED
  BY <1>3, VoxelCardinality DEF V!BitsBelowThreshold

LEMMA NoBits == ASSUME NEW t \in Nat PROVE V!BitsBelowThreshold({}, t)
  BY FS_EmptySet, VoxelCardinality DEF V!BitsBelowThreshold

(* Only the bits above the height are unknown in a column that is known to  *)
(* be free.                                                                 *)
LEMMA KnownFreeBelow ==
  ASSUME VParams, NEW col, Within(col), KnownFree(col), unknownThreshold = asked + (V_Bits - sizeZ)
  PROVE  /\ V!BitsBelowThreshold(col.hi, markThreshold)
         /\ V!BitsBelowThreshold(V!UnknownBits(col), unknownThreshold)
<1>1. col.hi = {} /\ col.lo \subseteq V!AllBits
  BY DEF Within, KnownFree, Columns
<1>2. V!UnknownBits(col) = col.lo
  BY <1>1 DEF V!UnknownBits
<1>3. col.lo \subseteq sizeZ..V_Bits - 1
  <2>1. \A z \in V!AllBits : z \in 0..sizeZ - 1 \/ z \in sizeZ..V_Bits - 1
    BY VoxelAssumption DEF V!AllBits, VParams
  <2>. QED
    BY <1>1, <2>1 DEF KnownFree
<1>4. IsFiniteSet(sizeZ..V_Bits - 1) /\ Cardinality(sizeZ..V_Bits - 1) = V_Bits - sizeZ
  <2>1. sizeZ \in Int /\ V_Bits - 1 \in Int /\ V_Bits \in Nat /\ sizeZ <= V_Bits
    BY VoxelAssumption DEF VParams
  <2>2. Cardinality(sizeZ..V_Bits - 1) = IF sizeZ > V_Bits - 1 THEN 0 ELSE (V_Bits - 1) - sizeZ + 1
    BY <2>1, FS_Interval
  <2>3. IsFiniteSet(sizeZ..V_Bits - 1)
    BY <2>1, FS_Interval
  <2>4. (IF sizeZ > V_Bits - 1 THEN 0 ELSE (V_Bits - 1) - sizeZ + 1) = V_Bits - sizeZ
    BY <2>1
  <2>. QED
    BY <2>2, <2>3, <2>4
<1>5. Cardinality(col.lo) \in Nat /\ Cardinality(col.lo) <= V_Bits - sizeZ
  <2>1. IsFiniteSet(col.lo) /\ Cardinality(col.lo) <= Cardinality(sizeZ..V_Bits - 1)
    BY <1>3, <1>4, FS_Subset
  <2>. QED
    BY <1>4, <2>1, FS_CardinalityType
<1>6. V!BitsBelowThreshold(col.lo, unknownThreshold)
  <2>1. Cardinality(col.lo) <= unknownThreshold
    BY <1>5, VoxelAssumption DEF VParams
  <2>. QED
    BY <2>1, VoxelCardinality DEF V!BitsBelowThreshold
<1>. QED
  BY <1>1, <1>2, <1>6, NoBits DEF VParams

LEMMA ClearAgrees ==
  ASSUME VParams, NEW col, Within(col), NEW zs, NEW cost
  PROVE  LET after == V!ClearVoxels(col, zs)
         IN /\ Within(after)
            /\ Agrees(col, cost) => Agrees(after, V!ClearedCost(after, cost))
            /\ cost = "unknown" => \/ Agrees(after, V!ClearedCost(after, cost))
                                   \/ V!ClearedCost(after, cost) = "unknown"
            /\ cost \in Costs => V!ClearedCost(after, cost) \in Costs
            /\ zs = {} => after = col
<1> DEFINE after == V!ClearVoxels(col, zs)
           new == V!ClearedCost(after, cost)
<1>1. /\ after.hi = col.hi \ zs /\ after.lo = col.lo \ zs
      /\ after = [hi |-> col.hi \ zs, lo |-> col.lo \ zs]
  BY DEF V!ClearVoxels
<1>2. col = [hi |-> col.hi, lo |-> col.lo] /\ col.hi \subseteq V!AllBits /\ col.hi \subseteq 0..sizeZ - 1
  BY DEF Within, Columns
<1>3. Within(after)
  BY <1>1 DEF Within, Columns
<1>4. zs = {} => after = col
  <2>1. zs = {} => col.hi \ zs = col.hi /\ col.lo \ zs = col.lo
    OBVIOUS
  <2>. QED
    BY <1>1, <1>2, <2>1
<1>5. new = IF ~V!BitsBelowThreshold(after.hi, markThreshold) THEN cost
            ELSE IF V!BitsBelowThreshold(V!UnknownBits(after), unknownThreshold) THEN "free" ELSE "unknown"
  BY DEF V!ClearedCost
<1> HIDE DEF after, new
<1>6. cost \in Costs => new \in Costs
  BY <1>5 DEF Costs
<1>7. ASSUME Agrees(col, cost) PROVE Agrees(after, new)
  <2>1. CASE V!BitsBelowThreshold(after.hi, markThreshold)
    <3>1. unknownThreshold = asked + (V_Bits - sizeZ) /\ KnownFree(after)
            => V!BitsBelowThreshold(V!UnknownBits(after), unknownThreshold)
      BY <1>3, KnownFreeBelow
    <3>. QED
      BY <1>5, <2>1, <3>1, Zenon DEF Agrees
  <2>2. CASE ~V!BitsBelowThreshold(after.hi, markThreshold)
    <3>1. ~V!BitsBelowThreshold(col.hi, markThreshold)
      BY <1>1, <1>2, <2>2, FewerBits DEF VParams
    <3>2. cost = "lethal" /\ new = "lethal"
      BY <1>5, <1>7, <2>2, <3>1, Zenon DEF Agrees
    <3>3. ~(unknownThreshold = asked + (V_Bits - sizeZ) /\ KnownFree(after))
      BY <1>3, <2>2, KnownFreeBelow
    <3>. QED
      BY <2>2, <3>2, <3>3 DEF Agrees
  <2>. QED
    BY <2>1, <2>2
<1>8. ASSUME cost = "unknown", new # "unknown" PROVE Agrees(after, new)
  <2>1. V!BitsBelowThreshold(after.hi, markThreshold)
    BY <1>5, <1>8
  <2>2. new = "free" /\ V!BitsBelowThreshold(V!UnknownBits(after), unknownThreshold)
    BY <1>5, <1>8, <2>1
  <2>. QED
    BY <2>1, <2>2 DEF Agrees
<1>. QED
  BY <1>3, <1>4, <1>6, <1>7, <1>8 DEF after, new

LEMMA MarkAgrees ==
  ASSUME VParams, NEW col, Within(col), NEW z \in 0..sizeZ - 1, NEW cost
  PROVE  LET after == V!MarkVoxel(col, z)
             new == IF V!BitsBelowThreshold(after.hi, markThreshold) THEN cost ELSE "lethal"
         IN Within(after) /\ (Agrees(col, cost) \/ cost = "unknown" => Agrees(after, new))
<1> DEFINE after == V!MarkVoxel(col, z)
           new == IF V!BitsBelowThreshold(after.hi, markThreshold) THEN cost ELSE "lethal"
<1>1. /\ after.hi = col.hi \cup {z} /\ after.lo = col.lo \cup {z}
      /\ after = [hi |-> col.hi \cup {z}, lo |-> col.lo \cup {z}]
  BY DEF V!MarkVoxel
<1>2. col.hi \subseteq V!AllBits /\ col.lo \subseteq V!AllBits /\ col.hi \subseteq 0..sizeZ - 1
  BY DEF Within, Columns
<1>3. z \in V!AllBits
  BY VoxelAssumption DEF VParams, V!AllBits
<1>4. Within(after)
  BY <1>1, <1>2, <1>3 DEF Within, Columns
<1>5. ~KnownFree(after)
  BY <1>1 DEF KnownFree
<1>6. V!BitsBelowThreshold(after.hi, markThreshold) => V!BitsBelowThreshold(col.hi, markThreshold)
  <2>1. col.hi \subseteq after.hi /\ after.hi \subseteq V!AllBits
    BY <1>1, <1>2, <1>3
  <2>. QED
    BY <2>1, FewerBits DEF VParams
<1>7. V!BitsBelowThreshold(V!UnknownBits(col), unknownThreshold)
        => V!BitsBelowThreshold(V!UnknownBits(after), unknownThreshold)
  <2>1. /\ V!UnknownBits(after) \subseteq V!UnknownBits(col)
        /\ V!UnknownBits(col) \subseteq V!AllBits
    BY <1>1, <1>2 DEF V!UnknownBits
  <2>. QED
    BY <2>1, FewerBits DEF VParams
<1> HIDE DEF after
<1>8. ASSUME Agrees(col, cost) PROVE Agrees(after, new)
  <2>1. CASE V!BitsBelowThreshold(after.hi, markThreshold)
    BY <1>5, <1>6, <1>7, <1>8, <2>1, Zenon DEF Agrees
  <2>2. CASE ~V!BitsBelowThreshold(after.hi, markThreshold)
    <3>1. new = "lethal"
      BY <2>2
    <3>2. new # "free"
      BY <3>1
    <3> HIDE DEF new
    <3>. QED
      BY <1>5, <2>2, <3>1, <3>2, Zenon DEF Agrees
  <2>. QED
    BY <2>1, <2>2
<1>9. ASSUME cost = "unknown" PROVE Agrees(after, new)
  <2>1. CASE V!BitsBelowThreshold(after.hi, markThreshold)
    <3>1. new = "unknown"
      BY <1>9, <2>1
    <3>2. new # "free" /\ new # "lethal"
      BY <3>1
    <3> HIDE DEF new
    <3>. QED
      BY <1>5, <2>1, <3>2, Zenon DEF Agrees
  <2>2. CASE ~V!BitsBelowThreshold(after.hi, markThreshold)
    <3>1. new = "lethal"
      BY <2>2
    <3>2. new # "free"
      BY <3>1
    <3> HIDE DEF new
    <3>. QED
      BY <1>5, <2>2, <3>1, <3>2, Zenon DEF Agrees
  <2>. QED
    BY <2>1, <2>2
<1>. QED
  BY <1>4, <1>8, <1>9 DEF after

LEMMA UnknownAgrees ==
  ASSUME VParams
  PROVE  Within(V!UnknownColumn) /\ Agrees(V!UnknownColumn, "unknown")
<1>1. V!UnknownColumn.hi = {} /\ V!UnknownColumn.lo = V!AllBits /\ V!UnknownColumn \in Columns
  BY DEF V!UnknownColumn, Columns
<1>2. ~KnownFree(V!UnknownColumn)
  <2>1. 0 \in 0..sizeZ - 1 /\ 0 \in V!AllBits
    BY VoxelAssumption DEF VParams, V!AllBits
  <2>. QED
    BY <1>1, <2>1 DEF KnownFree
<1>3. V!BitsBelowThreshold(V!UnknownColumn.hi, markThreshold)
  BY <1>1, NoBits DEF VParams
<1>. QED
  BY <1>1, <1>2, <1>3 DEF Within, Agrees

LEMMA ClearInMapOK ==
  ASSUME VParams, NEW m, NEW old, NEW gone, GoodMap(m, old, gone), NEW ray
  PROVE  GoodMap(V!ClearInMap(m, ray), old, gone)
<1> DEFINE passed(c) == {v[2] : v \in {v \in ray : v[1] = c}}
           after(c) == V!ClearVoxels(m.columns[c], passed(c))
           new(c) == V!ClearedCost(after(c), m.costs[c])
           result == V!ClearInMap(m, ray)
<1>1. /\ result.columns = [c \in V!Cells |-> after(c)]
      /\ result.costs = [c \in V!Cells |-> IF passed(c) = {} THEN m.costs[c] ELSE new(c)]
  BY DEF V!ClearInMap
<1> HIDE DEF passed, result
<1>2. ASSUME NEW c \in V!Cells
      PROVE  /\ Within(after(c)) /\ new(c) \in Costs
             /\ Agrees(m.columns[c], m.costs[c]) => Agrees(after(c), new(c))
             /\ m.costs[c] = "unknown" => Agrees(after(c), new(c)) \/ new(c) = "unknown"
             /\ passed(c) = {} => after(c) = m.columns[c]
  <2>1. Within(m.columns[c]) /\ m.costs[c] \in Costs
    BY DEF GoodMap
  <2>. QED
    BY <2>1, ClearAgrees
<1> HIDE DEF after, new
<1>3. \A c \in V!Cells : result.columns[c] = after(c) /\ result.costs[c] = IF passed(c) = {} THEN m.costs[c] ELSE new(c)
  BY <1>1
<1>4. result.columns \in [V!Cells -> Columns] /\ result.costs \in [V!Cells -> Costs]
  <2>1. \A c \in V!Cells : after(c) \in Columns /\ new(c) \in Costs /\ m.costs[c] \in Costs
    BY <1>2 DEF Within, GoodMap
  <2>. QED
    BY <1>1, <2>1
<1>5. \A c \in V!Cells : Within(result.columns[c])
  BY <1>2, <1>3
<1>6. ASSUME NEW c \in V!Cells \ old
      PROVE  Agrees(result.columns[c], result.costs[c]) \/ (c \in gone /\ result.costs[c] = "unknown")
  <2>1. Agrees(m.columns[c], m.costs[c]) \/ (c \in gone /\ m.costs[c] = "unknown")
    BY DEF GoodMap
  <2>2. CASE passed(c) = {}
    <3>1. result.columns[c] = m.columns[c] /\ result.costs[c] = m.costs[c]
      BY <1>2, <1>3, <2>2
    <3>. QED
      BY <2>1, <3>1
  <2>3. CASE passed(c) # {}
    <3>1. result.columns[c] = after(c) /\ result.costs[c] = new(c)
      BY <1>3, <2>3
    <3>. QED
      BY <1>2, <2>1, <3>1
  <2>. QED
    BY <2>2, <2>3
<1>. QED
  BY <1>4, <1>5, <1>6 DEF GoodMap, result

LEMMA MarkInMapOK ==
  ASSUME VParams, NEW m, NEW old, NEW gone, GoodMap(m, old, gone), NEW v, V!InGrid(v), v[2] \in Int
  PROVE  GoodMap(V!MarkVoxelInMap(m, v), old, gone \ {v[1]})
<1> DEFINE here == v[1]
           col == V!MarkVoxel(m.columns[here], v[2])
           new == IF V!BitsBelowThreshold(col.hi, markThreshold) THEN m.costs[here] ELSE "lethal"
           result == V!MarkVoxelInMap(m, v)
<1>1. here \in V!Cells /\ v[2] \in 0..sizeZ - 1
  BY DEF V!InGrid, VParams
<1>2. /\ m.columns \in [V!Cells -> Columns] /\ m.costs \in [V!Cells -> Costs]
      /\ \A c \in V!Cells : Within(m.columns[c])
      /\ \A c \in V!Cells \ old : Agrees(m.columns[c], m.costs[c]) \/ (c \in gone /\ m.costs[c] = "unknown")
  BY DEF GoodMap
<1>3. /\ result.columns = [m.columns EXCEPT ![here] = col]
      /\ result.costs = IF V!BitsBelowThreshold(col.hi, markThreshold) THEN m.costs
                        ELSE [m.costs EXCEPT ![here] = "lethal"]
  BY DEF V!MarkVoxelInMap
<1>4. Within(col) /\ (Agrees(m.columns[here], m.costs[here]) \/ m.costs[here] = "unknown" => Agrees(col, new))
  <2>1. Within(m.columns[here])
    BY <1>1, <1>2
  <2>. QED
    BY <1>1, <2>1, MarkAgrees
<1> HIDE DEF result, col, here
<1>5. /\ result.columns \in [V!Cells -> Columns] /\ result.columns[here] = col
      /\ \A c \in V!Cells \ {here} : result.columns[c] = m.columns[c]
  BY <1>1, <1>2, <1>3, <1>4 DEF Within
<1>6. /\ result.costs \in [V!Cells -> Costs] /\ result.costs[here] = new
      /\ \A c \in V!Cells \ {here} : result.costs[c] = m.costs[c]
  <2>1. "lethal" \in Costs
    BY DEF Costs
  <2>2. CASE V!BitsBelowThreshold(col.hi, markThreshold)
    BY <1>1, <1>2, <1>3, <2>2
  <2>3. CASE ~V!BitsBelowThreshold(col.hi, markThreshold)
    BY <1>1, <1>2, <1>3, <2>1, <2>3
  <2>. QED
    BY <2>2, <2>3
<1> HIDE DEF new
<1>7. \A c \in V!Cells : Within(result.columns[c])
  BY <1>2, <1>4, <1>5
<1>8. ASSUME NEW c \in V!Cells \ old
      PROVE  Agrees(result.columns[c], result.costs[c]) \/ (c \in gone \ {here} /\ result.costs[c] = "unknown")
  <2>1. CASE c = here
    <3>1. Agrees(m.columns[here], m.costs[here]) \/ m.costs[here] = "unknown"
      BY <1>2, <2>1
    <3>. QED
      BY <1>4, <1>5, <1>6, <2>1, <3>1
  <2>2. CASE c # here
    <3>1. /\ result.columns[c] = m.columns[c] /\ result.costs[c] = m.costs[c]
          /\ Agrees(m.columns[c], m.costs[c]) \/ (c \in gone /\ m.costs[c] = "unknown")
      BY <1>2, <1>5, <1>6, <2>2
    <3>. QED
      BY <2>2, <3>1
  <2>. QED
    BY <2>1, <2>2
<1>. QED
  BY <1>5, <1>6, <1>7, <1>8 DEF GoodMap, result, here

LEMMA ResetMapOK == VParams => \A old, gone : GoodMap(V!ResetMaps, old, gone)
<1>1. /\ V!ResetMaps.columns = [c \in V!Cells |-> V!UnknownColumn]
      /\ V!ResetMaps.costs = [c \in V!Cells |-> "unknown"]
  BY DEF V!ResetMaps, V!ResetColumns
<1>2. V!UnknownColumn \in Columns /\ "unknown" \in Costs
  BY DEF V!UnknownColumn, Columns, Costs
<1>. QED
  BY <1>1, <1>2, UnknownAgrees DEF GoodMap

(* What moves with the map stays as it was; what comes in is unknown.       *)
LEMMA MovedMapOK ==
  ASSUME VInv, NEW by
  PROVE  GoodMap(V!UpdateOrigin(by), {c \in V!Cells : V!Moved(c, by) /\ c + by \in stale},
                                     {c \in V!Cells : V!Moved(c, by) /\ c + by \in wiped})
<1> DEFINE result == V!UpdateOrigin(by)
           old == {c \in V!Cells : V!Moved(c, by) /\ c + by \in stale}
           gone == {c \in V!Cells : V!Moved(c, by) /\ c + by \in wiped}
<1>1. /\ result.columns = [c \in V!Cells |-> IF V!Moved(c, by) THEN columns[c + by] ELSE V!UnknownColumn]
      /\ result.costs = [c \in V!Cells |-> IF V!Moved(c, by) THEN costs[c + by] ELSE "unknown"]
  BY DEF V!UpdateOrigin
<1>2. /\ columns \in [V!Cells -> Columns] /\ costs \in [V!Cells -> Costs] /\ VParams
      /\ \A c \in V!Cells : Within(columns[c])
      /\ \A c \in V!Cells \ stale : Agrees(columns[c], costs[c]) \/ (c \in wiped /\ costs[c] = "unknown")
  BY DEF VInv, GoodMap
<1> HIDE DEF result
<1>3. ASSUME NEW c \in V!Cells
      PROVE  /\ Within(result.columns[c]) /\ result.costs[c] \in Costs
             /\ c \notin old => (Agrees(result.columns[c], result.costs[c])
                                 \/ (c \in gone /\ result.costs[c] = "unknown"))
  <2>1. CASE V!Moved(c, by)
    <3>1. c + by \in V!Cells
      BY <2>1 DEF V!Moved
    <3>2. result.columns[c] = columns[c + by] /\ result.costs[c] = costs[c + by]
      BY <1>1, <2>1
    <3>. QED
      BY <1>2, <2>1, <3>1, <3>2
  <2>2. CASE ~V!Moved(c, by)
    <3>1. result.columns[c] = V!UnknownColumn /\ result.costs[c] = "unknown"
      BY <1>1, <2>2
    <3>. QED
      BY <1>2, <3>1, UnknownAgrees DEF Costs
  <2>. QED
    BY <2>1, <2>2
<1>4. result.columns \in [V!Cells -> Columns] /\ result.costs \in [V!Cells -> Costs]
  <2>1. /\ result.columns = [c \in V!Cells |-> result.columns[c]]
        /\ result.costs = [c \in V!Cells |-> result.costs[c]]
    BY <1>1
  <2>2. \A c \in V!Cells : result.columns[c] \in Columns /\ result.costs[c] \in Costs
    BY <1>3 DEF Within
  <2>. QED
    BY <2>1, <2>2
<1>. QED
  BY <1>3, <1>4 DEF GoodMap, result

(* Clearing a voxel and then others of its column is clearing them at once, *)
(* whatever cost the first left: the rays of the model are the rays of the  *)
(* code, which clear voxel after voxel (voxel_grid.hpp:373).                *)
LEMMA RayAtOnce ==
  ASSUME VParams, NEW col, Within(col), NEW z, NEW zs, NEW cost
  PROVE  LET first == V!ClearVoxels(col, {z})
             both == V!ClearVoxels(col, {z} \cup zs)
         IN /\ V!ClearVoxels(first, zs) = both
            /\ V!ClearedCost(both, V!ClearedCost(first, cost)) = V!ClearedCost(both, cost)
<1> DEFINE first == V!ClearVoxels(col, {z})
           both == V!ClearVoxels(col, {z} \cup zs)
<1>1. first.hi = col.hi \ {z} /\ first.lo = col.lo \ {z} /\ both.hi = col.hi \ ({z} \cup zs)
  BY DEF V!ClearVoxels
<1>2. V!ClearVoxels(first, zs) = both
  <2>1. (col.hi \ {z}) \ zs = col.hi \ ({z} \cup zs) /\ (col.lo \ {z}) \ zs = col.lo \ ({z} \cup zs)
    OBVIOUS
  <2>. QED
    BY <2>1 DEF V!ClearVoxels
<1>3. V!BitsBelowThreshold(first.hi, markThreshold) => V!BitsBelowThreshold(both.hi, markThreshold)
  <2>1. both.hi \subseteq first.hi /\ first.hi \subseteq V!AllBits
    BY <1>1 DEF Within, Columns
  <2>. QED
    BY <2>1, FewerBits DEF VParams
<1> HIDE DEF first, both
<1>4. V!ClearedCost(both, V!ClearedCost(first, cost)) = V!ClearedCost(both, cost)
  BY <1>3, Zenon DEF V!ClearedCost
<1>. QED
  BY <1>2, <1>4 DEF first, both

LEMMA VoxelInitOK == V!Init => VInv
<1>1. SUFFICES ASSUME V!Init PROVE VInv
  OBVIOUS
<1>2. /\ sizeZ \in V_Heights /\ asked \in V_Unknowns /\ unknownThreshold = asked + (V_Bits - sizeZ)
      /\ markThreshold \in V_Marks /\ columns = V!ResetMaps.columns /\ costs = V!ResetMaps.costs
  BY <1>1 DEF V!Init, V!ResetMaps
<1>3. VParams
  BY <1>2, VoxelAssumption DEF VParams
<1>4. GoodMap(V!ResetMaps, stale, wiped) /\ [columns |-> columns, costs |-> costs] = V!ResetMaps
  BY <1>2, <1>3, ResetMapOK DEF V!ResetMaps
<1>. QED
  BY <1>3, <1>4 DEF VInv

(* The parameters as they are, a good map is good of the next state.        *)
LEMMA GoodMapStays ==
  ASSUME VParams, UNCHANGED <<sizeZ, unknownThreshold, markThreshold, asked>>, NEW m,
         columns' = m.columns, costs' = m.costs, GoodMap(m, stale', wiped')
  PROVE  VInv'
<1>1. VParams'
  BY DEF VParams
<1>2. \A col : Within(col)' <=> Within(col)
  BY DEF Within
<1>3. \A col, cost : Agrees(col, cost)' <=> Agrees(col, cost)
  BY DEF Agrees, V!BitsBelowThreshold, KnownFree
<1>4. \A c \in V!Cells : Within(m.columns[c])'
  BY <1>2 DEF GoodMap
<1>5. \A c \in V!Cells \ stale' : Agrees(m.columns[c], m.costs[c])' \/ (c \in wiped' /\ m.costs[c] = "unknown")
  BY <1>3 DEF GoodMap
<1>6. m.columns \in [V!Cells -> Columns] /\ m.costs \in [V!Cells -> Costs]
  BY DEF GoodMap
<1>. QED
  BY <1>1, <1>4, <1>5, <1>6 DEF VInv, GoodMap

LEMMA VoxelBoundsOK ==
  ASSUME VInv, NEW by, NEW point \in V!Voxels, V!InGrid(point),
         NEW marking \in {<<>>, <<point>>}, NEW clearing, V!UpdateBounds(by, marking, clearing)
  PROVE  VInv'
<1> DEFINE m0 == V!UpdateOrigin(by)
           m1 == IF clearing = <<>> THEN m0 ELSE V!RaytraceFreespace(m0, V!Sensor, clearing[1])
           m2 == IF marking = <<>> THEN m1 ELSE V!MarkVoxelInMap(m1, marking[1])
           last == IF enabled THEN m2 ELSE m0
           gone == {c \in V!Cells : V!Moved(c, by) /\ c + by \in wiped}
           left == IF enabled /\ marking # <<>> THEN gone \ {point[1]} ELSE gone
<1>1. /\ columns' = last.columns /\ costs' = last.costs
      /\ stale' = {c \in V!Cells : V!Moved(c, by) /\ c + by \in stale}
      /\ UNCHANGED <<sizeZ, unknownThreshold, markThreshold, asked>>
  BY Zenon DEF V!UpdateBounds, V!MapOf, V!params
<1>2. VParams
  BY DEF VInv
<1>3. GoodMap(m0, stale', gone)
  BY <1>1, MovedMapOK
<1>4. GoodMap(m1, stale', gone)
  <2> DEFINE ray == {V!Rays[V!Sensor, clearing[1]][i] : i \in DOMAIN V!Rays[V!Sensor, clearing[1]]}
  <2>1. m1 \in {m0, V!ClearInMap(m0, ray)}
    BY Zenon DEF V!RaytraceFreespace, V!ClearVoxelLineInMap
  <2> HIDE DEF m0, m1, ray, gone
  <2>. QED
    BY <1>2, <1>3, <2>1, ClearInMapOK
<1>5. GoodMap(m2, stale', IF marking = <<>> THEN gone ELSE gone \ {point[1]})
  <2>1. CASE marking = <<>>
    <3>1. m2 = m1
      BY <2>1
    <3> HIDE DEF m1, m2, gone
    <3>. QED
      BY <1>4, <2>1, <3>1
  <2>2. CASE marking # <<>>
    <3>1. m2 = V!MarkVoxelInMap(m1, point)
      BY <2>2, SMT
    <3>2. point[2] \in Int
      BY VoxelAssumption DEF V!Voxels, V!AllBits
    <3> HIDE DEF m1, m2, gone
    <3>3. GoodMap(V!MarkVoxelInMap(m1, point), stale', gone \ {point[1]})
      BY <1>2, <1>4, <3>2, MarkInMapOK
    <3>. QED
      BY <2>2, <3>1, <3>3
  <2>. QED
    BY <2>1, <2>2
<1>6. GoodMap(last, stale', left)
  <2> HIDE DEF m0, m2, gone
  <2>. QED
    BY <1>3, <1>5
<1>7. \A c \in left : last.costs[c] = "unknown" => c \in wiped'
  <2>1. wiped' = {c \in V!Cells : /\ V!Moved(c, by) /\ c + by \in wiped /\ costs'[c] = "unknown"
                                /\ ~(enabled /\ \E i \in DOMAIN marking : marking[i][1] = c)}
    BY Zenon DEF V!UpdateBounds
  <2>2. \A c \in left : ~(enabled /\ \E i \in DOMAIN marking : marking[i][1] = c)
    <3>1. marking = <<>> => DOMAIN marking = {}
      OBVIOUS
    <3>2. marking # <<>> => \A i \in DOMAIN marking : marking[i][1] = point[1]
      OBVIOUS
    <3> HIDE DEF gone
    <3>. QED
      BY <3>1, <3>2
  <2>3. \A c \in left : c \in V!Cells /\ V!Moved(c, by) /\ c + by \in wiped
    OBVIOUS
  <2> HIDE DEF last, left, gone
  <2>. QED
    BY <1>1, <2>1, <2>2, <2>3
<1> HIDE DEF last, left
<1>8. GoodMap(last, stale', wiped')
  BY <1>6, <1>7 DEF GoodMap
<1>. QED
  BY <1>1, <1>2, <1>8, GoodMapStays

(* A column that is as good as it was under other thresholds is stale; a    *)
(* map that is reset is good under every height.                            *)
LEMMA VoxelOK == VInv /\ (V!Next \/ UNCHANGED V!vars) => VInv'
<1> DEFINE here == [columns |-> columns, costs |-> costs]
<1>1. SUFFICES ASSUME VInv, V!Next \/ UNCHANGED V!vars PROVE VInv'
  OBVIOUS
<1>2. VParams /\ GoodMap(here, stale, wiped) /\ here.columns = columns /\ here.costs = costs
  BY <1>1 DEF VInv
<1> HIDE DEF here
<1>3. ASSUME UNCHANGED <<columns, costs, sizeZ, unknownThreshold, markThreshold, asked, stale, wiped>> PROVE VInv'
  BY <1>2, <1>3, GoodMapStays
<1>4. CASE UNCHANGED V!vars
  BY <1>3, <1>4 DEF V!vars
<1>5. CASE V!SetEnabled
  BY <1>3, <1>5 DEF V!SetEnabled, V!params
<1>6. ASSUME NEW by \in {0, 1}, NEW point \in V!Voxels, NEW marking \in {<<>>, <<point>>},
             NEW clearing \in {<<>>, <<point>>}, V!InGrid(point), V!UpdateBounds(by, marking, clearing)
      PROVE  VInv'
  BY <1>1, <1>6, VoxelBoundsOK
<1>7. ASSUME NEW footprint \in {{}, {0}}, V!UpdateCosts(footprint) PROVE VInv'
  <2>1. /\ UNCHANGED <<columns, sizeZ, unknownThreshold, markThreshold, asked, wiped>>
        /\ costs' = [c \in V!Cells |-> IF enabled /\ c \in footprint THEN "free" ELSE costs[c]]
        /\ stale' = IF enabled THEN stale \cup footprint ELSE stale
    BY <1>7 DEF V!UpdateCosts, V!params
  <2> DEFINE m == [columns |-> columns, costs |-> costs']
  <2>2. costs' \in [V!Cells -> Costs]
    BY <1>2, <2>1 DEF GoodMap, Costs
  <2>3. \A c \in V!Cells \ stale' : c \notin stale /\ costs'[c] = costs[c]
    BY <2>1
  <2>4. GoodMap(m, stale', wiped')
    BY <1>2, <2>1, <2>2, <2>3 DEF GoodMap
  <2>5. columns' = m.columns /\ costs' = m.costs
    BY <2>1
  <2> HIDE DEF m
  <2>. QED
    BY <1>2, <2>1, <2>4, <2>5, GoodMapStays
<1>8. CASE V!Reset
  BY <1>2, <1>8, ResetMapOK, GoodMapStays DEF V!Reset, V!MapOf, V!params
<1>9. ASSUME NEW z \in V_Heights, V!SetHeight(z) PROVE VInv'
  <2>1. /\ sizeZ' = z /\ UNCHANGED <<unknownThreshold, markThreshold, asked>>
        /\ columns' = V!ResetMaps.columns /\ costs' = V!ResetMaps.costs
    BY <1>9 DEF V!SetHeight, V!MatchSize, V!MapOf
  <2>2. VParams'
    BY <1>2, <2>1, VoxelAssumption DEF VParams
  <2>3. (\A old, gone : GoodMap(V!ResetMaps, old, gone))'
    BY <2>2, ResetMapOK, PTL
  <2> DEFINE m == [columns |-> V!ResetMaps.columns, costs |-> V!ResetMaps.costs]
  <2>4. m = V!ResetMaps
    BY DEF V!ResetMaps
  <2>5. VInv' <=> VParams' /\ GoodMap(m, stale, wiped)'
    BY <2>1 DEF VInv, GoodMap
  <2>. QED
    BY <2>2, <2>3, <2>4, <2>5 DEF GoodMap
<1>10. ASSUME NEW n \in Nat, markThreshold' \in Nat, unknownThreshold' = n + (V_Bits - sizeZ) \/ unknownThreshold' \in Nat,
              asked' \in Nat, UNCHANGED <<columns, costs, sizeZ>>, stale' = V!Cells
       PROVE  VInv'
  <2>1. VParams'
    BY <1>2, <1>10, VoxelAssumption DEF VParams
  <2>2. \A col : Within(col)' <=> Within(col)
    BY <1>10 DEF Within
  <2>3. /\ columns' \in [V!Cells -> Columns] /\ costs' \in [V!Cells -> Costs]
        /\ \A c \in V!Cells : Within(columns[c])
    BY <1>2, <1>10 DEF GoodMap
  <2>. QED
    BY <1>10, <2>1, <2>2, <2>3 DEF VInv, GoodMap
<1>11. ASSUME NEW n \in V_Unknowns, V!SetUnknown(n) PROVE VInv'
  BY <1>2, <1>10, <1>11, VoxelAssumption DEF V!SetUnknown, VParams
<1>12. ASSUME NEW n \in V_Marks, V!SetMark(n) PROVE VInv'
  BY <1>2, <1>10, <1>12, VoxelAssumption DEF V!SetMark, VParams
<1>13. ASSUME NEW kept \in SUBSET V!Cells, V!ClearArea(kept) PROVE VInv'
  <2>1. /\ UNCHANGED <<columns, sizeZ, unknownThreshold, markThreshold, asked, stale>>
        /\ costs' = [c \in V!Cells |-> IF c \in kept THEN costs[c] ELSE "unknown"]
        /\ wiped' = wiped \cup {c \in V!Cells \ kept : costs[c] # "unknown"}
    BY <1>13 DEF V!ClearArea, V!params
  <2> DEFINE m == [columns |-> columns, costs |-> costs']
  <2>2. costs' \in [V!Cells -> Costs]
    BY <1>2, <2>1 DEF GoodMap, Costs
  <2>3. ASSUME NEW c \in V!Cells \ stale
        PROVE  Agrees(columns[c], costs'[c]) \/ (c \in wiped' /\ costs'[c] = "unknown")
    <3>1. Agrees(columns[c], costs[c]) \/ (c \in wiped /\ costs[c] = "unknown")
      BY <1>2 DEF GoodMap
    <3>2. \/ costs'[c] = costs[c]
          \/ costs'[c] = "unknown" /\ c \in wiped'
      BY <2>1
    <3>. QED
      BY <2>1, <3>1, <3>2
  <2>4. GoodMap(m, stale', wiped')
    BY <1>2, <2>1, <2>2, <2>3 DEF GoodMap
  <2>5. columns' = m.columns /\ costs' = m.costs
    BY <2>1
  <2> HIDE DEF m
  <2>. QED
    BY <1>2, <2>1, <2>4, <2>5, GoodMapStays
<1>. QED
  BY <1>1, <1>4, <1>5, <1>6, <1>7, <1>8, <1>9, <1>11, <1>12, <1>13 DEF V!Next

-----------------------------------------------------------------------------
(* The master grid.  Costs are bytes, and bounds are numbers.               *)
CellGrid == [L!Cells -> 0..255]
Bounds == [lo : Int, hi : Int]

LayersType ==
  /\ cfg \in L_Configs
  /\ origin \in Int /\ primary \in CellGrid /\ master \in CellGrid
  /\ static \in [grid : CellGrid, buffer : {<<>>} \union {<<m>> : m \in L_StaticMaps},
                 received : BOOLEAN, updated : BOOLEAN, enabled : BOOLEAN]
  /\ obstacle \in [grid : CellGrid, origin : Int, extra : Bounds, enabled : BOOLEAN]
  /\ inflation \in [last : Bounds, again : BOOLEAN, enabled : BOOLEAN]
  /\ masked \in BOOLEAN /\ synced \in BOOLEAN /\ fresh \in BOOLEAN

\* what the layers before the inflation say of the cells between lo and hi
Base(s, g, m, o, lo, hi) == L!ObstacleCosts(g, L!StaticCosts(s, L!ResetMap(m, lo, hi), o, lo, hi), lo, hi)

(* The ends of a set of numbers that is not empty.                          *)
LEMMA EndsOf ==
  ASSUME NEW T, NEW lower \in Int, NEW upper \in Int, T # {}, T \subseteq lower..upper
  PROVE  /\ L!Least(T) \in T /\ \A x \in T : L!Least(T) <= x
         /\ L!Greatest(T) \in T /\ \A x \in T : x <= L!Greatest(T)
<1>1. \E x \in T : \A y \in T : x <= y
  <2> DEFINE above == {x - lower : x \in T}
  <2>1. above \subseteq Nat /\ above # {}
    <3>1. ASSUME NEW x \in T PROVE x - lower \in Nat
      <4>1. x \in lower..upper
        OBVIOUS
      <4>. QED
        BY <4>1
    <3>. QED
      BY <3>1
  <2>2. PICK k \in above : \A n \in above : k <= n
    <3> HIDE DEF above
    <3>. QED
      BY <2>1, LeastExists
  <2>3. PICK x \in T : k = x - lower
    OBVIOUS
  <2>4. ASSUME NEW y \in T PROVE x <= y
    <3>1. k <= y - lower
      BY <2>2
    <3>. QED
      BY <2>3, <3>1
  <2>. QED
    BY <2>4
<1>2. \E x \in T : \A y \in T : y <= x
  <2> DEFINE below == {upper - x : x \in T}
  <2>1. below \subseteq Nat /\ below # {}
    <3>1. ASSUME NEW x \in T PROVE upper - x \in Nat
      <4>1. x \in lower..upper
        OBVIOUS
      <4>. QED
        BY <4>1
    <3>. QED
      BY <3>1
  <2>2. PICK k \in below : \A n \in below : k <= n
    <3> HIDE DEF below
    <3>. QED
      BY <2>1, LeastExists
  <2>3. PICK x \in T : k = upper - x
    OBVIOUS
  <2>4. ASSUME NEW y \in T PROVE y <= x
    <3>1. k <= upper - y
      BY <2>2
    <3>. QED
      BY <2>3, <3>1
  <2>. QED
    BY <2>4
<1>. QED
  BY <1>1, <1>2 DEF L!Least, L!Greatest

LEMMA EndsOfTwo ==
  ASSUME NEW x \in Int, NEW y \in Int
  PROVE  /\ L!Least({x, y}) = (IF x <= y THEN x ELSE y)
         /\ L!Greatest({x, y}) = (IF x <= y THEN y ELSE x)
<1>1. PICK lower \in Int, upper \in Int : {x, y} \subseteq lower..upper
  <2>1. CASE x <= y
    <3>1. {x, y} \subseteq x..y
      BY <2>1
    <3>. QED
      BY <3>1
  <2>2. CASE ~(x <= y)
    <3>1. {x, y} \subseteq y..x
      BY <2>2
    <3>. QED
      BY <3>1
  <2>. QED
    BY <2>1, <2>2
<1>2. /\ L!Least({x, y}) \in {x, y} /\ \A z \in {x, y} : L!Least({x, y}) <= z
      /\ L!Greatest({x, y}) \in {x, y} /\ \A z \in {x, y} : z <= L!Greatest({x, y})
  BY <1>1, EndsOf
<1>. QED
  BY <1>2

(* Bounds only get wider.                                                   *)
LEMMA WidenCovers ==
  ASSUME NEW b \in Bounds, NEW c \in Bounds
  PROVE  LET w == L!Widen(b, c)
         IN w \in Bounds /\ w.lo <= b.lo /\ b.hi <= w.hi /\ w.lo <= c.lo /\ c.hi <= w.hi
  BY EndsOfTwo DEF L!Widen, Bounds

LEMMA TouchCovers ==
  ASSUME NEW b \in Bounds, NEW lower \in Int, NEW upper \in Int, NEW T, T \subseteq lower..upper
  PROVE  LET w == L!Touch(b, T)
         IN w \in Bounds /\ w.lo <= b.lo /\ b.hi <= w.hi /\ \A x \in T : w.lo <= x /\ x <= w.hi
<1> DEFINE ls == {b.lo} \cup T
           hs == {b.hi} \cup T
<1>0. b.lo \in Int /\ b.hi \in Int
  BY DEF Bounds
<1>1. PICK p \in Int, q \in Int : p <= lower /\ upper <= q /\ p <= b.lo /\ b.lo <= q /\ p <= b.hi /\ b.hi <= q
  <2>1. PICK p \in Int : p <= lower /\ p <= b.lo /\ p <= b.hi
    <3>1. \A x \in Int, y \in Int, z \in Int : \E k \in Int : k <= x /\ k <= y /\ k <= z
      <4>1. SUFFICES ASSUME NEW x \in Int, NEW y \in Int, NEW z \in Int
                     PROVE  \E k \in Int : k <= x /\ k <= y /\ k <= z
        OBVIOUS
      <4>. QED
        BY <4>1, x <= y \/ y <= x, y <= z \/ z <= y, x <= z \/ z <= x
    <3>. QED
      BY <1>0, <3>1
  <2>2. PICK q \in Int : upper <= q /\ b.lo <= q /\ b.hi <= q
    <3>1. \A x \in Int, y \in Int, z \in Int : \E k \in Int : x <= k /\ y <= k /\ z <= k
      <4>1. SUFFICES ASSUME NEW x \in Int, NEW y \in Int, NEW z \in Int
                     PROVE  \E k \in Int : x <= k /\ y <= k /\ z <= k
        OBVIOUS
      <4>. QED
        BY <4>1, x <= y \/ y <= x, y <= z \/ z <= y, x <= z \/ z <= x
    <3>. QED
      BY <1>0, <3>1
  <2>. QED
    BY <2>1, <2>2
<1>2. ls \subseteq p..q /\ hs \subseteq p..q /\ ls # {} /\ hs # {}
  <2>1. b.lo \in p..q /\ b.hi \in p..q
    BY <1>0, <1>1
  <2>2. ASSUME NEW x \in T PROVE x \in p..q
    <3>1. x \in lower..upper
      OBVIOUS
    <3>. QED
      BY <1>1, <3>1
  <2>. QED
    BY <2>1, <2>2
<1>3. L!Least(ls) \in ls /\ \A x \in ls : L!Least(ls) <= x
  <2> HIDE DEF ls, hs
  <2>. QED
    BY <1>2, EndsOf
<1>4. L!Greatest(hs) \in hs /\ \A x \in hs : x <= L!Greatest(hs)
  <2> HIDE DEF ls, hs
  <2>. QED
    BY <1>2, EndsOf
<1>5. L!Touch(b, T).lo = L!Least(ls) /\ L!Touch(b, T).hi = L!Greatest(hs)
      /\ L!Touch(b, T) = [lo |-> L!Least(ls), hi |-> L!Greatest(hs)]
  BY DEF L!Touch
<1>6. L!Least(ls) \in Int /\ L!Greatest(hs) \in Int
  <2>1. ls \subseteq Int /\ hs \subseteq Int
    BY <1>2
  <2> HIDE DEF ls, hs
  <2>. QED
    BY <1>3, <1>4, <2>1
<1>7. L!Least(ls) <= b.lo /\ b.hi <= L!Greatest(hs)
  BY <1>3, <1>4
<1>8. \A x \in T : L!Least(ls) <= x /\ x <= L!Greatest(hs)
  BY <1>3, <1>4
<1> HIDE DEF ls, hs
<1>. QED
  BY <1>5, <1>6, <1>7, <1>8 DEF Bounds

(* The window of an update has the cells between its bounds.                *)
LEMMA WindowCovers ==
  ASSUME NEW c \in Bounds, NEW o \in Int, NEW lo, NEW hi,
         lo = L!WorldToMapEnforceBounds(c.lo, o),
         hi = L!Least({L_W, L!WorldToMapEnforceBounds(c.hi, o) + 1})
  PROVE  /\ lo \in 0..L_W - 1 /\ hi \in 1..L_W
         /\ \A i \in L!Cells : c.lo <= o + i /\ o + i <= c.hi => i \in lo..hi - 1
         /\ c.lo <= o /\ o + L_W - 1 <= c.hi => lo = 0 /\ hi = L_W
<1>1. c.lo \in Int /\ c.hi \in Int /\ L_W \in 2..500
  BY LayersAssumption DEF Bounds
<1>2. \A x \in Int : L!WorldToMapEnforceBounds(x, o) \in 0..L_W - 1
  BY <1>1 DEF L!WorldToMapEnforceBounds
<1>3. hi = L!WorldToMapEnforceBounds(c.hi, o) + 1
  <2> DEFINE last == L!WorldToMapEnforceBounds(c.hi, o) + 1
  <2>1. last \in Int /\ L_W \in Int /\ last <= L_W
    BY <1>1, <1>2
  <2>2. hi = L!Least({L_W, last})
    OBVIOUS
  <2> HIDE DEF last
  <2>3. L!Least({L_W, last}) = IF L_W <= last THEN L_W ELSE last
    BY <2>1, EndsOfTwo
  <2>4. hi = last
    BY <2>1, <2>2, <2>3
  <2>. QED
    BY <2>4 DEF last
<1>4. lo \in 0..L_W - 1 /\ hi \in 1..L_W
  BY <1>1, <1>2, <1>3
<1>5. ASSUME NEW i \in L!Cells, c.lo <= o + i, o + i <= c.hi PROVE i \in lo..hi - 1
  <2>1. i \in 0..L_W - 1
    BY DEF L!Cells
  <2>2. lo <= i
    BY <1>1, <1>5, <2>1 DEF L!WorldToMapEnforceBounds
  <2>3. i <= hi - 1
    <3>1. ~(c.hi < o) /\ c.hi - o >= i
      BY <1>1, <1>5, <2>1
    <3>2. i <= L!WorldToMapEnforceBounds(c.hi, o)
      BY <1>1, <2>1, <3>1 DEF L!WorldToMapEnforceBounds
    <3>. QED
      BY <1>1, <1>2, <1>3, <2>1, <3>2
  <2>. QED
    BY <1>4, <2>1, <2>2, <2>3
<1>6. c.lo <= o /\ o + L_W - 1 <= c.hi => lo = 0 /\ hi = L_W
  <2>1. SUFFICES ASSUME c.lo <= o, o + L_W - 1 <= c.hi PROVE lo = 0 /\ hi = L_W
    OBVIOUS
  <2>2. lo = 0
    BY <1>1, <2>1 DEF L!WorldToMapEnforceBounds
  <2>3. L!WorldToMapEnforceBounds(c.hi, o) = L_W - 1
    BY <1>1, <2>1 DEF L!WorldToMapEnforceBounds
  <2>. QED
    BY <1>1, <1>3, <2>2, <2>3
<1>. QED
  BY <1>4, <1>5, <1>6

\* what the layers before the inflation say of the cell at x where the obstacle layer has v
StaticValue(s, x) == IF s.enabled /\ s.received /\ x \in L!Cells THEN s.grid[x] ELSE L!Default

Combined(v, a) ==
  IF ~obstacle.enabled \/ v = L!NoInfo THEN a
  ELSE IF cfg.overwrite \/ a = L!NoInfo \/ a < v THEN v ELSE a

LEMMA BaseAt ==
  ASSUME NEW s, s.grid \in CellGrid, NEW g \in CellGrid, NEW m \in CellGrid,
         NEW o \in Int, NEW lo \in Int, NEW hi \in Int
  PROVE  /\ Base(s, g, m, o, lo, hi) \in CellGrid
         /\ \A i \in L!Cells : Base(s, g, m, o, lo, hi)[i] =
              IF i \in lo..hi - 1 THEN Combined(g[i], StaticValue(s, o + i)) ELSE m[i]
<1> DEFINE blank == L!ResetMap(m, lo, hi)
           below == L!StaticCosts(s, blank, o, lo, hi)
           done == L!ObstacleCosts(g, below, lo, hi)
<1>1. blank \in CellGrid /\ \A i \in L!Cells : blank[i] = IF i \in lo..hi - 1 THEN 255 ELSE m[i]
  BY DEF L!ResetMap, CellGrid, L!Default, L!NoInfo
<1>2. below \in CellGrid
      /\ \A i \in L!Cells : below[i] = IF i \in lo..hi - 1 THEN StaticValue(s, o + i) ELSE m[i]
  <2> HIDE DEF blank
  <2>1. CASE ~s.enabled \/ ~s.received
    BY <1>1, <2>1 DEF L!StaticCosts, StaticValue, L!Default, L!NoInfo
  <2>2. CASE ~(~s.enabled \/ ~s.received)
    <3>1. below = [i \in L!Cells |-> IF i \in lo..hi - 1 /\ o + i \in L!Cells THEN s.grid[o + i] ELSE blank[i]]
      BY <2>2 DEF L!StaticCosts
    <3>2. below \in CellGrid
      BY <1>1, <3>1 DEF CellGrid
    <3>3. ASSUME NEW i \in L!Cells
          PROVE  below[i] = IF i \in lo..hi - 1 THEN StaticValue(s, o + i) ELSE m[i]
      BY <1>1, <2>2, <3>1 DEF StaticValue, L!Default, L!NoInfo
    <3>. QED
      BY <3>2, <3>3
  <2>. QED
    BY <2>1, <2>2
<1>3. done \in CellGrid
      /\ \A i \in L!Cells : done[i] =
           IF i \in lo..hi - 1 THEN Combined(g[i], StaticValue(s, o + i)) ELSE m[i]
  <2> HIDE DEF below
  <2>1. CASE ~obstacle.enabled
    BY <1>2, <2>1 DEF L!ObstacleCosts, Combined
  <2>2. CASE obstacle.enabled /\ cfg.overwrite
    <3>1. done = [i \in L!Cells |-> IF i \in lo..hi - 1 /\ g[i] # L!NoInfo THEN g[i] ELSE below[i]]
      BY <2>2 DEF L!ObstacleCosts, L!UpdateWithOverwrite
    <3>2. done \in CellGrid
      BY <1>2, <3>1 DEF CellGrid
    <3>3. \A i \in L!Cells : done[i] =
            IF i \in lo..hi - 1 THEN Combined(g[i], StaticValue(s, o + i)) ELSE m[i]
      BY <1>2, <2>2, <3>1 DEF Combined
    <3>. QED
      BY <3>2, <3>3
  <2>3. CASE obstacle.enabled /\ ~cfg.overwrite
    <3>1. done = [i \in L!Cells |-> IF i \in lo..hi - 1 /\ g[i] # L!NoInfo
                                         /\ (below[i] = L!NoInfo \/ below[i] < g[i])
                                    THEN g[i] ELSE below[i]]
      BY <2>3 DEF L!ObstacleCosts, L!UpdateWithMax
    <3>2. done \in CellGrid
      BY <1>2, <3>1 DEF CellGrid
    <3>3. \A i \in L!Cells : done[i] =
            IF i \in lo..hi - 1 THEN Combined(g[i], StaticValue(s, o + i)) ELSE m[i]
      BY <1>2, <2>3, <3>1 DEF Combined
    <3>. QED
      BY <3>2, <3>3
  <2>. QED
    BY <2>1, <2>2, <2>3
<1>. QED
  BY <1>3 DEF Base

\* the distances of the obstacles that inflate a cell
Near(m, i) == {d \in 0..L_Radius : \E j \in L!Cells : m[j] = L!Lethal /\ (j = i + d \/ j = i - d)}

Inflated(a, near) == IF near = {} THEN a ELSE L!InflatedCost(a, L!Least(near))

LEMMA CostsAreBytes ==
  ASSUME NEW a \in 0..255, NEW d \in Nat
  PROVE  /\ L!InflatedCost(a, d) \in 0..255
         /\ (d = 0 => a = L!Lethal) => (L!InflatedCost(a, d) = L!Lethal <=> a = L!Lethal)
<1>1. L!CostAt(d) \in 0..254 /\ (d # 0 => L!CostAt(d) \in 0..253)
  <2>1. CASE d = 0 \/ d = 1
    BY <2>1 DEF L!CostAt, L!Lethal, L!Inscribed
  <2>2. CASE d >= 2
    <3>1. 100 \div d \in 0..100
      BY <2>2
    <3>. QED
      BY <2>2, <3>1 DEF L!CostAt
  <2>. QED
    BY <2>1, <2>2
<1>2. L!Greatest({a, L!CostAt(d)}) = (IF a <= L!CostAt(d) THEN L!CostAt(d) ELSE a)
  <2>1. a \in Int /\ L!CostAt(d) \in Int
    BY <1>1
  <2>. QED
    BY <2>1, EndsOfTwo
<1>. QED
  BY <1>1, <1>2 DEF L!InflatedCost, L!Lethal, L!Inscribed, L!NoInfo

LEMMA InflatedIsByte ==
  ASSUME L_Radius \in Nat, NEW a \in 0..255, NEW near, near \subseteq 0..L_Radius
  PROVE  /\ Inflated(a, near) \in 0..255
         /\ (0 \in near => a = L!Lethal) => (Inflated(a, near) = L!Lethal <=> a = L!Lethal)
<1>1. CASE near = {}
  BY <1>1 DEF Inflated
<1>2. CASE near # {}
  <2>0. 0 \in Int /\ L_Radius \in Int
    OBVIOUS
  <2>1. L!Least(near) \in near
    BY <1>2, <2>0, EndsOf, Zenon
  <2>2. L!Least(near) \in Nat /\ (L!Least(near) = 0 => 0 \in near)
    <3>1. L!Least(near) \in 0..L_Radius
      BY <2>1
    <3>. QED
      BY <2>1, <3>1
  <2>. QED
    <3>1. Inflated(a, near) = L!InflatedCost(a, L!Least(near))
      BY <1>2 DEF Inflated
    <3>. QED
      BY <2>2, <3>1, CostsAreBytes
<1>. QED
  BY <1>1, <1>2

LEMMA InflationAt ==
  ASSUME NEW m \in CellGrid, NEW lo \in 0..L_W - 1, NEW hi \in 1..L_W
  PROVE  /\ L!InflationCosts(m, lo, hi) \in CellGrid
         /\ \A i \in L!Cells :
              /\ L!InflationCosts(m, lo, hi)[i] =
                   IF inflation.enabled /\ i \in lo..hi - 1 THEN Inflated(m[i], Near(m, i)) ELSE m[i]
              /\ L!InflationCosts(m, lo, hi)[i] = L!Lethal <=> m[i] = L!Lethal
<1> DEFINE sources == L!Sources(m, lo, hi)
           far(i) == {L!Greatest({i - j, j - i}) : j \in sources}
           done == L!InflationCosts(m, lo, hi)
<1>0. L_W \in 2..500 /\ L_Radius \in Nat
  BY LayersAssumption
<1>1. sources = {j \in L!Cells : lo - L_Radius <= j /\ j < hi + L_Radius /\ m[j] = L!Lethal}
  <2>1. L!Greatest({0, lo - L_Radius}) = (IF 0 <= lo - L_Radius THEN lo - L_Radius ELSE 0)
        /\ L!Least({L_W, hi + L_Radius}) = (IF L_W <= hi + L_Radius THEN L_W ELSE hi + L_Radius)
    <3>1. 0 \in Int /\ lo - L_Radius \in Int /\ L_W \in Int /\ hi + L_Radius \in Int
      BY <1>0
    <3>. QED
      BY <3>1, EndsOfTwo
  <2>. QED
    BY <1>0, <2>1 DEF L!Sources, L!Cells
<1>2. ASSUME NEW i \in L!Cells, i \in lo..hi - 1
      PROVE  /\ (\E d \in far(i) : d <= L_Radius) <=> Near(m, i) # {}
             /\ Near(m, i) # {} => L!Least(far(i)) = L!Least(Near(m, i))
  <2>1. i \in 0..L_W - 1 /\ L!Cells = 0..L_W - 1
    BY DEF L!Cells
  <2>2. \A j \in L!Cells : L!Greatest({i - j, j - i}) = (IF i <= j THEN j - i ELSE i - j)
    <3>1. ASSUME NEW j \in L!Cells PROVE L!Greatest({i - j, j - i}) = (IF i <= j THEN j - i ELSE i - j)
      <4>1. j \in Int /\ i - j \in Int /\ j - i \in Int
        BY <2>1
      <4>2. L!Greatest({i - j, j - i}) = (IF i - j <= j - i THEN j - i ELSE i - j)
        BY <4>1, EndsOfTwo
      <4>. QED
        BY <2>1, <4>1, <4>2
    <3>. QED
      BY <3>1
  <2>3. far(i) \subseteq 0..L_W
    <3>1. \A j \in sources : L!Greatest({i - j, j - i}) \in 0..L_W
      <4>1. sources \subseteq L!Cells
        BY <1>1
      <4> HIDE DEF sources
      <4>2. ASSUME NEW j \in sources PROVE L!Greatest({i - j, j - i}) \in 0..L_W
        <5>1. j \in 0..L_W - 1 /\ L!Greatest({i - j, j - i}) = (IF i <= j THEN j - i ELSE i - j)
          BY <2>1, <2>2, <4>1
        <5>. QED
          BY <1>0, <2>1, <5>1
      <4>. QED
        BY <4>2
    <3>. QED
      BY <3>1
  <2>4. ASSUME NEW d \in far(i), d <= L_Radius PROVE d \in Near(m, i)
    <3>1. PICK j \in sources : d = L!Greatest({i - j, j - i})
      OBVIOUS
    <3>2. j \in L!Cells /\ m[j] = L!Lethal
      BY <1>1, <3>1
    <3>3. d = IF i <= j THEN j - i ELSE i - j
      BY <2>2, <3>1, <3>2
    <3>4. d \in 0..L_Radius
      <4>1. d \in 0..L_W
        BY <2>3
      <4>. QED
        BY <1>0, <2>4, <4>1
    <3>5. j = i + d \/ j = i - d
      BY <2>1, <3>2, <3>3
    <3>. QED
      BY <3>2, <3>4, <3>5 DEF Near
  <2>5. ASSUME NEW d \in Near(m, i) PROVE d \in far(i) /\ d <= L_Radius
    <3>1. PICK j \in L!Cells : m[j] = L!Lethal /\ (j = i + d \/ j = i - d)
      BY DEF Near
    <3>2. d \in 0..L_Radius
      BY DEF Near
    <3>3. d = IF i <= j THEN j - i ELSE i - j
      BY <1>0, <2>1, <3>1, <3>2
    <3>4. j \in sources
      BY <1>0, <1>1, <1>2, <2>1, <3>1, <3>2
    <3>5. d = L!Greatest({i - j, j - i})
      BY <2>2, <3>3
    <3>. QED
      BY <1>0, <3>2, <3>4, <3>5
  <2>6. Near(m, i) \subseteq 0..L_Radius
    BY DEF Near
  <2>7. ASSUME Near(m, i) # {} PROVE L!Least(far(i)) = L!Least(Near(m, i))
    <3> DEFINE all1 == far(i)
               near == Near(m, i)
    <3>1. near # {} /\ near \subseteq all1 /\ all1 # {} /\ all1 \subseteq 0..L_W /\ near \subseteq 0..L_Radius
          /\ \A d \in all1 : d <= L_Radius => d \in near
      BY <2>3, <2>4, <2>5, <2>6, <2>7
    <3> HIDE DEF all1, near
    <3>0. 0 \in Int /\ L_W \in Int /\ L_Radius \in Int
      BY <1>0
    <3>2. L!Least(all1) \in all1 /\ \A d \in all1 : L!Least(all1) <= d
      BY <3>0, <3>1, EndsOf, Zenon
    <3>3. L!Least(near) \in near /\ \A d \in near : L!Least(near) <= d
      BY <3>0, <3>1, EndsOf, Zenon
    <3>4. L!Least(near) \in 0..L_Radius /\ L!Least(near) \in 0..L_W /\ L!Least(all1) \in 0..L_W
      BY <3>1, <3>2, <3>3
    <3>5. L!Least(all1) <= L!Least(near)
      BY <3>1, <3>2, <3>3
    <3>6. L!Least(all1) \in near
      BY <1>0, <3>1, <3>2, <3>4, <3>5
    <3>7. L!Least(near) <= L!Least(all1)
      BY <3>3, <3>6
    <3>8. L!Least(all1) = L!Least(near)
      BY <1>0, <3>4, <3>5, <3>7
    <3>. QED
      BY <3>8 DEF all1, near
  <2>8. (\E d \in far(i) : d <= L_Radius) <=> Near(m, i) # {}
    <3> HIDE DEF far
    <3>. QED
      BY <2>4, <2>5
  <2>. QED
    BY <2>7, <2>8
<1>3. ASSUME NEW i \in L!Cells
      PROVE  /\ m[i] \in 0..255 /\ Near(m, i) \subseteq 0..L_Radius
             /\ 0 \in Near(m, i) => m[i] = L!Lethal
  <2>1. m[i] \in 0..255
    BY DEF CellGrid
  <2>2. i \in Int
    BY <1>0 DEF L!Cells
  <2>. QED
    BY <2>1, <2>2 DEF Near
<1>4. CASE ~inflation.enabled
  BY <1>4 DEF L!InflationCosts
<1>5. CASE inflation.enabled
  <2>1. done = [i \in L!Cells |-> IF i \in lo..hi - 1 /\ \E d \in far(i) : d <= L_Radius
                                  THEN L!InflatedCost(m[i], L!Least(far(i))) ELSE m[i]]
    BY <1>5 DEF L!InflationCosts
  <2>2. ASSUME NEW i \in L!Cells
        PROVE  done[i] = IF i \in lo..hi - 1 THEN Inflated(m[i], Near(m, i)) ELSE m[i]
    <3>1. done[i] = IF i \in lo..hi - 1 /\ \E d \in far(i) : d <= L_Radius
                    THEN L!InflatedCost(m[i], L!Least(far(i))) ELSE m[i]
      <4> HIDE DEF done, far
      <4>. QED
        BY <2>1
    <3> HIDE DEF done, far
    <3>2. CASE i \in lo..hi - 1
      BY <1>2, <3>1, <3>2 DEF Inflated
    <3>3. CASE i \notin lo..hi - 1
      BY <3>1, <3>3
    <3>. QED
      BY <3>2, <3>3
  <2>3. ASSUME NEW i \in L!Cells PROVE done[i] \in 0..255 /\ (done[i] = L!Lethal <=> m[i] = L!Lethal)
    <3> HIDE DEF done
    <3>1. CASE i \in lo..hi - 1
      <4> DEFINE near == Near(m, i)
      <4>1. near \subseteq 0..L_Radius /\ m[i] \in 0..255 /\ (0 \in near => m[i] = L!Lethal)
        BY <1>3
      <4>2. done[i] = Inflated(m[i], near)
        BY <2>2, <3>1
      <4> HIDE DEF near
      <4>3. /\ Inflated(m[i], near) \in 0..255
            /\ Inflated(m[i], near) = L!Lethal <=> m[i] = L!Lethal
        BY <1>0, <4>1, InflatedIsByte, Zenon
      <4>. QED
        BY <4>2, <4>3
    <3>2. CASE i \notin lo..hi - 1
      BY <1>3, <2>2, <3>2
    <3>. QED
      BY <3>1, <3>2
  <2>4. done \in CellGrid
    <3> DEFINE val(i) == IF i \in lo..hi - 1 /\ \E d \in far(i) : d <= L_Radius
                         THEN L!InflatedCost(m[i], L!Least(far(i))) ELSE m[i]
    <3>1. done = [i \in L!Cells |-> val(i)]
      BY <2>1
    <3> HIDE DEF done, val
    <3>2. \A i \in L!Cells : done[i] = val(i)
      BY <3>1
    <3>. QED
      BY <2>3, <3>1, <3>2 DEF CellGrid
  <2> HIDE DEF done
  <2>5. \A i \in L!Cells :
              /\ done[i] = IF inflation.enabled /\ i \in lo..hi - 1 THEN Inflated(m[i], Near(m, i)) ELSE m[i]
              /\ done[i] = L!Lethal <=> m[i] = L!Lethal
    BY <1>5, <2>2, <2>3
  <2>. QED
    BY <2>4, <2>5 DEF done
<1>. QED
  BY <1>4, <1>5

LEMMA MovedAt ==
  ASSUME NEW g \in CellGrid, NEW k \in Int
  PROVE  /\ L!MoveGrid(g, k) \in CellGrid
         /\ \A i \in L!Cells : L!MoveGrid(g, k)[i] = IF i + k \in L!Cells THEN g[i + k] ELSE L!Default
  BY DEF L!MoveGrid, CellGrid, L!Default, L!NoInfo

(* A ray that starts in the grid ends there.                                *)
LEMMA RayStaysInGrid ==
  ASSUME NEW o \in Int, NEW r \in Int, L!InGrid(r, o), NEW h \in Int
  PROVE  L!RayEnd(r, h, o) \in o..o + L_W - 1
<1> DEFINE edge == IF h < o THEN o ELSE IF h > o + L_W - 1 THEN o + L_W - 1 ELSE h
<1>1. L_W \in 2..500 /\ L_RayRange \in Nat /\ o <= r /\ r <= o + L_W - 1
  BY LayersAssumption DEF L!InGrid, L!Cells
<1>2. edge \in o..o + L_W - 1
  BY <1>1
<1>3. L!RayEnd(r, h, o) = IF edge - r > L_RayRange THEN r + L_RayRange
                          ELSE IF r - edge > L_RayRange THEN r - L_RayRange ELSE edge
  BY DEF L!RayEnd
<1> HIDE DEF edge
<1>. QED
  BY <1>1, <1>2, <1>3

Moved(o) == IF cfg.rolling THEN L!MoveGrid(obstacle.grid, o - obstacle.origin) ELSE obstacle.grid

CellSets == SUBSET Int

(* An update of the obstacle layer changes cells between its bounds only,   *)
(* and the obstacles it adds are where the scan hit.                        *)
Observed(o, r, hits, clearing, first) ==
  LET g == L!ObservedGrid(o, r, hits, clearing)
      b == L!ObstacleBounds(first, o, r, hits, clearing)
  IN /\ g \in CellGrid
     /\ b \in Bounds /\ b.lo <= first.lo /\ first.hi <= b.hi
     /\ obstacle.enabled => b.lo <= obstacle.extra.lo /\ obstacle.extra.hi <= b.hi
     /\ \A i \in L!Cells : g[i] = L!Lethal => Moved(o)[i] = L!Lethal \/ o + i \in hits
     /\ \A i \in L!Cells : ~(b.lo <= o + i /\ o + i <= b.hi) => g[i] = Moved(o)[i]

LEMMA ObservedAt ==
  ASSUME LayersType, NEW o \in Int, NEW r \in Int, NEW hits \in CellSets, NEW clearing \in CellSets,
         NEW first \in Bounds
  PROVE  Observed(o, r, hits, clearing, first)
<1> DEFINE g == L!ObservedGrid(o, r, hits, clearing)
           b == L!ObstacleBounds(first, o, r, hits, clearing)
           moved == Moved(o)
<1>0. L_W \in 2..500 /\ L!Cells = 0..L_W - 1 /\ hits \in SUBSET Int /\ clearing \in SUBSET Int
  BY LayersAssumption DEF L!Cells, CellSets
<1>1. obstacle.grid \in CellGrid /\ obstacle.extra \in Bounds /\ obstacle.origin \in Int
  BY DEF LayersType
<1>2. moved \in CellGrid
  <2>1. o - obstacle.origin \in Int
    BY <1>1
  <2>. QED
    BY <1>1, <2>1, MovedAt DEF Moved
<1>3. CASE ~obstacle.enabled
  <2>1. g = moved /\ b = first
    BY <1>3 DEF L!ObservedGrid, L!ObstacleBounds, Moved
  <2>2. first.lo <= first.lo /\ first.hi <= first.hi
    BY DEF Bounds
  <2> HIDE DEF g, b, moved
  <2>3. g \in CellGrid /\ b \in Bounds /\ b.lo <= first.lo /\ first.hi <= b.hi
    BY <1>2, <2>1, <2>2
  <2>. QED
    BY <1>3, <2>1, <2>3 DEF g, b, moved, Observed
<1>4. CASE obstacle.enabled
  <2> DEFINE ends == {L!RayEnd(r, h, o) : h \in clearing}
             seenCells == {r} \cup L!MarkedBy(o, r, hits) \cup (IF L!InGrid(r, o) THEN ends ELSE {})
             wide == L!Widen(first, obstacle.extra)
             swept == L!RaytraceFreespace(moved, o, r, clearing)
             marked == L!MarkObstacles(swept, o, r, hits)
  <2>1. wide \in Bounds /\ wide.lo <= first.lo /\ first.hi <= wide.hi
        /\ wide.lo <= obstacle.extra.lo /\ obstacle.extra.hi <= wide.hi
    BY <1>1, WidenCovers
  <2>2. b = L!Touch(wide, seenCells)
    BY <1>4 DEF L!ObstacleBounds, L!UseExtraBounds
  <2>3. PICK lower \in Int, upper \in Int : seenCells \subseteq lower..upper
    <3> DEFINE lowest == IF r <= o THEN r ELSE o
               highest == IF r <= o + L_W - 1 THEN o + L_W - 1 ELSE r
    <3>1. lowest \in Int /\ highest \in Int /\ r \in lowest..highest /\ o..o + L_W - 1 \subseteq lowest..highest
      BY <1>0
    <3>2. L!MarkedBy(o, r, hits) \subseteq o..o + L_W - 1
      <4>1. ASSUME NEW h \in L!MarkedBy(o, r, hits) PROVE h \in o..o + L_W - 1
        <5>1. h \in Int /\ h - o \in 0..L_W - 1
          BY <1>0 DEF L!MarkedBy, L!InGrid
        <5>. QED
          BY <1>0, <5>1
      <4>. QED
        BY <4>1
    <3>3. (IF L!InGrid(r, o) THEN ends ELSE {}) \subseteq o..o + L_W - 1
      BY <1>0, RayStaysInGrid
    <3> HIDE DEF lowest, highest, ends
    <3>4. seenCells \subseteq lowest..highest
      BY <3>1, <3>2, <3>3
    <3> HIDE DEF seenCells
    <3>. QED
      BY <3>1, <3>4
  <2>4. b \in Bounds /\ b.lo <= wide.lo /\ wide.hi <= b.hi /\ \A x \in seenCells : b.lo <= x /\ x <= b.hi
    <3> HIDE DEF b, wide, seenCells
    <3>. QED
      BY <2>1, <2>2, <2>3, TouchCovers
  <2>5. b.lo <= first.lo /\ first.hi <= b.hi /\ b.lo <= obstacle.extra.lo /\ obstacle.extra.hi <= b.hi
    <3> HIDE DEF b, wide
    <3>. QED
      BY <1>1, <2>1, <2>4 DEF Bounds
  <2>6. g = L!ClearFootprint(marked, o, r)
    BY <1>4 DEF L!ObservedGrid, Moved
  <2>7. /\ swept \in CellGrid
        /\ \A i \in L!Cells : swept[i] = moved[i] \/ (swept[i] = L!Free /\ b.lo <= o + i /\ o + i <= b.hi)
    <3>1. swept = [i \in L!Cells |-> IF L!InGrid(r, o) /\ \E h \in clearing : o + i \in L!Between(r, L!RayEnd(r, h, o))
                                     THEN L!Free ELSE moved[i]]
      BY DEF L!RaytraceFreespace
    <3>2. swept \in CellGrid
      <4> HIDE DEF moved
      <4>. QED
        BY <1>2, <3>1 DEF CellGrid, L!Free
    <3>3. ASSUME NEW i \in L!Cells, swept[i] # moved[i]
          PROVE  swept[i] = L!Free /\ b.lo <= o + i /\ o + i <= b.hi
      <4> HIDE DEF b, swept, moved, seenCells
      <4>1. swept[i] = L!Free /\ L!InGrid(r, o) /\ \E h \in clearing : o + i \in L!Between(r, L!RayEnd(r, h, o))
        BY <3>1, <3>3
      <4>2. PICK h \in clearing : o + i \in L!Between(r, L!RayEnd(r, h, o))
        BY <4>1
      <4>3. r \in seenCells /\ L!RayEnd(r, h, o) \in seenCells
        BY <4>1 DEF seenCells
      <4>4. b.lo <= r /\ r <= b.hi /\ b.lo <= L!RayEnd(r, h, o) /\ L!RayEnd(r, h, o) <= b.hi
        BY <2>4, <4>3
      <4>5. L!RayEnd(r, h, o) \in Int /\ b.lo \in Int /\ b.hi \in Int /\ o + i \in Int
        <5>1. L!RayEnd(r, h, o) \in o..o + L_W - 1
          BY <1>0, <4>1, RayStaysInGrid
        <5>2. b.lo \in Int /\ b.hi \in Int
          BY <2>4 DEF Bounds
        <5>. QED
          BY <1>0, <5>1, <5>2
      <4>. QED
        BY <4>1, <4>2, <4>4, <4>5 DEF L!Between
    <3>. QED
      BY <3>2, <3>3
  <2>8. /\ marked \in CellGrid
        /\ \A i \in L!Cells : marked[i] = swept[i]
             \/ (marked[i] = L!Lethal /\ o + i \in hits /\ b.lo <= o + i /\ o + i <= b.hi)
    <3>1. marked = [i \in L!Cells |-> IF o + i \in L!MarkedBy(o, r, hits) THEN L!Lethal ELSE swept[i]]
      BY DEF L!MarkObstacles
    <3>2. marked \in CellGrid
      <4> HIDE DEF swept
      <4>. QED
        BY <2>7, <3>1 DEF CellGrid, L!Lethal
    <3>3. ASSUME NEW i \in L!Cells, marked[i] # swept[i]
          PROVE  marked[i] = L!Lethal /\ o + i \in hits /\ b.lo <= o + i /\ o + i <= b.hi
      <4> HIDE DEF b, swept, marked
      <4>1. marked[i] = L!Lethal /\ o + i \in L!MarkedBy(o, r, hits)
        BY <3>1, <3>3
      <4>2. o + i \in hits
        BY <4>1 DEF L!MarkedBy
      <4>. QED
        BY <2>4, <4>1, <4>2
    <3>. QED
      BY <3>2, <3>3
  <2>9. /\ g \in CellGrid
        /\ \A i \in L!Cells : g[i] = marked[i] \/ (g[i] = L!Free /\ b.lo <= o + i /\ o + i <= b.hi)
    <3> HIDE DEF marked, g
    <3>1. CASE ~L!InGrid(r, o)
      BY <2>6, <2>8, <3>1 DEF L!ClearFootprint
    <3>2. CASE L!InGrid(r, o)
      <4>1. g = [marked EXCEPT ![r - o] = L!Free] /\ r - o \in L!Cells
        BY <2>6, <3>2 DEF L!ClearFootprint, L!InGrid
      <4>2. g \in CellGrid /\ \A i \in L!Cells : g[i] = IF i = r - o THEN L!Free ELSE marked[i]
        BY <2>8, <4>1 DEF CellGrid, L!Free
      <4>3. b.lo <= r /\ r <= b.hi
        BY <2>4
      <4> HIDE DEF b
      <4>4. ASSUME NEW i \in L!Cells, i = r - o PROVE b.lo <= o + i /\ o + i <= b.hi
        <5>1. o + i = r
          BY <4>4
        <5>. QED
          BY <4>3, <5>1
      <4>. QED
        BY <4>2, <4>4
    <3>. QED
      BY <3>1, <3>2
  <2> HIDE DEF g, b, moved, swept, marked, wide, seenCells
  <2>10. ASSUME NEW i \in L!Cells, g[i] = L!Lethal PROVE moved[i] = L!Lethal \/ o + i \in hits
    BY <2>10, <2>7, <2>8, <2>9 DEF L!Lethal, L!Free
  <2>11. ASSUME NEW i \in L!Cells, ~(b.lo <= o + i /\ o + i <= b.hi) PROVE g[i] = moved[i]
    BY <2>11, <2>7, <2>8, <2>9
  <2>. QED
    BY <2>10, <2>11, <2>4, <2>5, <2>9 DEF g, b, moved, Observed
<1>. QED
  BY <1>3, <1>4

LEMMA InflationOfAll ==
  ASSUME NEW m \in CellGrid
  PROVE  /\ L!InflationCosts(m, 0, L_W) \in CellGrid
         /\ \A i \in L!Cells :
              /\ L!InflationCosts(m, 0, L_W)[i] = IF inflation.enabled THEN Inflated(m[i], Near(m, i)) ELSE m[i]
              /\ L!InflationCosts(m, 0, L_W)[i] = L!Lethal <=> m[i] = L!Lethal
<1> DEFINE lo == 0
           hi == L_W
           done == L!InflationCosts(m, lo, hi)
<1>1. lo \in 0..L_W - 1 /\ hi \in 1..L_W /\ lo..hi - 1 = L!Cells
  BY LayersAssumption DEF L!Cells
<1> HIDE DEF lo, hi
<1>2. /\ done \in CellGrid
      /\ \A i \in L!Cells :
           /\ done[i] = IF inflation.enabled /\ i \in lo..hi - 1 THEN Inflated(m[i], Near(m, i)) ELSE m[i]
           /\ done[i] = L!Lethal <=> m[i] = L!Lethal
  BY <1>1, InflationAt
<1>3. done = L!InflationCosts(m, 0, L_W)
  BY DEF lo, hi
<1> HIDE DEF done
<1>. QED
  BY <1>1, <1>2, <1>3

(* An update of the cells between lo and hi gives what an update of all     *)
(* would: f and n are what the layers before the inflation said and say.    *)
LEMMA PartIsWhole ==
  ASSUME NEW f \in CellGrid, NEW n \in CellGrid, NEW q \in CellGrid,
         NEW lo \in 0..L_W - 1, NEW hi \in 1..L_W, NEW from \in Int, NEW to \in Int,
         \A i \in L!Cells : q[i] = IF i \in lo..hi - 1 THEN n[i] ELSE L!InflationCosts(f, 0, L_W)[i],
         \A i \in L!Cells : ~(from <= i /\ i <= to) => n[i] = f[i],
         \A i \in L!Cells : from - L_Radius <= i /\ i <= to + L_Radius => i \in lo..hi - 1
  PROVE  L!InflationCosts(q, lo, hi) = L!InflationCosts(n, 0, L_W)
<1> DEFINE old == L!InflationCosts(f, 0, L_W)
           part == L!InflationCosts(q, lo, hi)
           whole == L!InflationCosts(n, 0, L_W)
<1>0. L_W \in 2..500 /\ L_Radius \in Nat /\ L!Cells = 0..L_W - 1 /\ 0 \in 0..L_W - 1 /\ L_W \in 1..L_W
  BY LayersAssumption DEF L!Cells
<1>1. old \in CellGrid
      /\ \A i \in L!Cells : /\ old[i] = IF inflation.enabled THEN Inflated(f[i], Near(f, i)) ELSE f[i]
                            /\ old[i] = L!Lethal <=> f[i] = L!Lethal
  BY InflationOfAll
<1>2. whole \in CellGrid
      /\ \A i \in L!Cells : whole[i] = IF inflation.enabled THEN Inflated(n[i], Near(n, i)) ELSE n[i]
  BY InflationOfAll
<1>3. part \in CellGrid
      /\ \A i \in L!Cells : part[i] = IF inflation.enabled /\ i \in lo..hi - 1
                                      THEN Inflated(q[i], Near(q, i)) ELSE q[i]
  BY InflationAt
<1>4. \A i \in L!Cells : q[i] = IF i \in lo..hi - 1 THEN n[i] ELSE old[i]
  OBVIOUS
<1> HIDE DEF old, part, whole
<1>5. ASSUME NEW i \in L!Cells, i \notin lo..hi - 1 PROVE n[i] = f[i]
  <2>1. ~(from - L_Radius <= i /\ i <= to + L_Radius)
    BY <1>5
  <2>2. i \in Int
    BY <1>0
  <2>3. ~(from <= i /\ i <= to)
    BY <1>0, <2>1, <2>2
  <2>. QED
    BY <2>3
<1>6. ASSUME NEW i \in L!Cells PROVE q[i] = L!Lethal <=> n[i] = L!Lethal
  <2>1. CASE i \in lo..hi - 1
    BY <1>4, <2>1
  <2>2. CASE i \notin lo..hi - 1
    BY <1>1, <1>4, <1>5, <2>2
  <2>. QED
    BY <2>1, <2>2
<1>7. ASSUME NEW i \in L!Cells PROVE Near(q, i) = Near(n, i)
  BY <1>6 DEF Near
<1>8. ASSUME NEW i \in L!Cells, i \notin lo..hi - 1 PROVE Near(f, i) = Near(n, i)
  <2>1. ASSUME NEW d \in 0..L_Radius, NEW j \in L!Cells, j = i + d \/ j = i - d PROVE n[j] = f[j]
    <3>1. SUFFICES ASSUME from <= j, j <= to PROVE FALSE
      OBVIOUS
    <3>2. i \in Int /\ j \in Int /\ d \in 0..L_Radius
      BY <1>0
    <3>3. from - L_Radius <= i /\ i <= to + L_Radius
      BY <1>0, <2>1, <3>1, <3>2
    <3>. QED
      BY <1>8, <3>3
  <2>. QED
    BY <2>1 DEF Near
<1>9. ASSUME NEW i \in L!Cells PROVE part[i] = whole[i]
  <2>1. CASE i \in lo..hi - 1
    <3>1. q[i] = n[i] /\ Near(q, i) = Near(n, i)
      BY <1>4, <1>7, <2>1
    <3>. QED
      BY <1>2, <1>3, <2>1, <3>1
  <2>2. CASE i \notin lo..hi - 1
    <3>1. part[i] = old[i]
      BY <1>3, <1>4, <2>2
    <3>2. f[i] = n[i] /\ Near(f, i) = Near(n, i)
      BY <1>5, <1>8, <2>2
    <3>. QED
      BY <1>1, <1>2, <3>1, <3>2
  <2>. QED
    BY <2>1, <2>2
<1>10. part = whole
  BY <1>2, <1>3, <1>9 DEF CellGrid
<1>. QED
  BY <1>10 DEF part, whole

\* a grid after the window has moved
Kept(x, o) == IF cfg.rolling THEN L!MoveGrid(x, o - origin) ELSE x

(* What an update makes of the grids; the early return when the bounds are  *)
(* empty says the same.                                                     *)
LEMMA CostsOfUpdate ==
  ASSUME LayersType, NEW s, s.grid \in CellGrid, NEW g \in CellGrid, NEW o \in Int,
         NEW lo \in 0..L_W - 1, NEW hi \in 1..L_W, L!UpdateCosts(s, g, o, lo, hi)
  PROVE  LET m == Kept(IF cfg.filtered THEN primary ELSE master, o)
             done == L!InflationCosts(Base(s, g, m, o, lo, hi), lo, hi)
         IN /\ m \in CellGrid /\ Kept(master, o) \in CellGrid /\ done \in CellGrid
            /\ IF cfg.filtered
               THEN /\ primary' = done /\ master' \in CellGrid
                    /\ \A i \in L!Cells : master'[i] =
                         IF i \in lo..hi - 1 THEN IF masked /\ o + i = L!MaskCell THEN L!Lethal ELSE done[i]
                                             ELSE Kept(master, o)[i]
               ELSE primary' \in CellGrid /\ master' = done
<1> DEFINE p == Kept(primary, o)
           m == Kept(master, o)
           old == Kept(IF cfg.filtered THEN primary ELSE master, o)
           base == Base(s, g, old, o, lo, hi)
           done == L!InflationCosts(base, lo, hi)
           filtered == L!FilterCosts(L!CopyWindow(done, m, lo, hi), o, lo, hi)
<1>0. /\ primary \in CellGrid /\ master \in CellGrid /\ origin \in Int
      /\ cfg.filtered \in BOOLEAN /\ cfg.rolling \in BOOLEAN
  BY LayersAssumption DEF LayersType
<1>1. p \in CellGrid /\ m \in CellGrid /\ old = (IF cfg.filtered THEN p ELSE m) /\ old \in CellGrid
  <2>1. o - origin \in Int
    BY <1>0
  <2>. QED
    BY <1>0, <2>1, MovedAt DEF Kept
<1>2. base \in CellGrid /\ \A i \in L!Cells : i \notin lo..hi - 1 => base[i] = old[i]
  <2> HIDE DEF old
  <2>. QED
    BY <1>1, BaseAt
<1>3. done \in CellGrid /\ \A i \in L!Cells : i \notin lo..hi - 1 => done[i] = old[i]
  <2> HIDE DEF base
  <2>1. done \in CellGrid /\ \A i \in L!Cells : i \notin lo..hi - 1 => done[i] = base[i]
    BY <1>2, InflationAt
  <2>. QED
    BY <1>2, <2>1
<1>4. /\ filtered \in CellGrid
      /\ \A i \in L!Cells : filtered[i] =
                         IF i \in lo..hi - 1 THEN IF masked /\ o + i = L!MaskCell THEN L!Lethal ELSE done[i]
                                             ELSE m[i]
  <2> HIDE DEF done, m
  <2>. QED
    BY <1>1, <1>3 DEF L!FilterCosts, L!CopyWindow, CellGrid, L!Lethal
<1>5. CASE hi < lo
  <2>1. primary' = p /\ master' = m
    BY <1>5 DEF L!UpdateCosts, Kept
  <2>2. \A i \in L!Cells : i \notin lo..hi - 1
    BY <1>5
  <2> HIDE DEF p, m, old, done, filtered
  <2>3. done = old
    BY <1>1, <1>3, <2>2 DEF CellGrid
  <2>4. filtered = m
    BY <1>1, <1>4, <2>2 DEF CellGrid
  <2>5. cfg.filtered => primary' = done /\ master' = filtered
    BY <1>1, <2>1, <2>3, <2>4
  <2>6. ~cfg.filtered => primary' = p /\ master' = done
    BY <1>1, <2>1, <2>3
  <2>7. CASE cfg.filtered
    BY <1>1, <1>3, <1>4, <2>5, <2>7 DEF old, done, m
  <2>8. CASE ~cfg.filtered
    BY <1>1, <1>3, <2>6, <2>8 DEF old, done, m
  <2>. QED
    BY <2>7, <2>8
<1>6. CASE ~(hi < lo)
  <2>1. L!Plugins(s, g, old, o, lo, hi) = {done}
    BY DEF L!Plugins, Base
  <2>2. \E ready \in L!Plugins(s, g, old, o, lo, hi) :
          IF ~cfg.filtered THEN primary' = p /\ master' = ready
          ELSE primary' = ready /\ master' = L!FilterCosts(L!CopyWindow(ready, m, lo, hi), o, lo, hi)
    <3> DEFINE left == IF cfg.filtered THEN p ELSE m
    <3>1. \E ready \in L!Plugins(s, g, left, o, lo, hi) :
          IF ~cfg.filtered THEN primary' = p /\ master' = ready
          ELSE primary' = ready /\ master' = L!FilterCosts(L!CopyWindow(ready, m, lo, hi), o, lo, hi)
      BY <1>6 DEF L!UpdateCosts, Kept
    <3>2. left = old
      BY <1>1
    <3> HIDE DEF left, old
    <3>. QED
      BY <3>1, <3>2
  <2> HIDE DEF p, m, old, done
  <2>3. IF ~cfg.filtered THEN primary' = p /\ master' = done
        ELSE primary' = done /\ master' = filtered
    BY <2>1, <2>2
  <2> HIDE DEF filtered
  <2>7. CASE cfg.filtered
    BY <1>1, <1>3, <1>4, <2>3, <2>7 DEF old, done, m
  <2>8. CASE ~cfg.filtered
    BY <1>1, <1>3, <2>3, <2>8 DEF old, done, m
  <2>. QED
    BY <2>7, <2>8
<1>. QED
  BY <1>5, <1>6

\* the window is nearer than what stands for infinity, and the obstacle
\* layer's is the same
WindowInv ==
  /\ origin \in -L!Far..L!Far - L_W /\ obstacle.origin = origin
  /\ ~cfg.rolling => origin = 0

Whole == L!InflationCosts(Base(static, obstacle.grid, L!Blank, origin, 0, L_W), 0, L_W)

Matches ==
  IF cfg.filtered THEN primary = Whole /\ master = L!FilterCosts(Whole, origin, 0, L_W) ELSE master = Whole

\* the next update will be of all cells
Pending ==
  \/ static.received /\ (static.updated \/ static.buffer # <<>>)
  \/ inflation.again
  \/ obstacle.enabled /\ obstacle.extra.lo <= 0 /\ obstacle.extra.hi >= L_W

MatchInv == ~cfg.rolling /\ synced => (Matches \/ Pending) /\ (fresh => Matches)

KeptInv ==
  cfg.rolling /\ ~cfg.overwrite /\ obstacle.enabled /\ synced
    => \A i \in L!Cells : obstacle.grid[i] = L!Lethal => master[i] = L!Lethal

\* before the update the static map may have changed anywhere
SeenInv ==
  /\ \A i \in L!Cells : obstacle.grid[i] = L!Lethal => origin + i \in UNION L_Scans
  /\ cfg.rolling =>
       \A i \in L!Cells : master[i] = L!Lethal =>
         \/ origin + i \in UNION L_Scans
         \/ masked /\ origin + i = L!MaskCell
         \/ /\ static.received /\ origin + i \in L!Cells
            /\ fresh => static.grid[origin + i] = L!Lethal

LayersInv == LayersType /\ WindowInv /\ MatchInv /\ KeptInv /\ SeenInv /\ L!RobotInWindow

LEMMA WholeAfter ==
  ASSUME NEW s, NEW g, NEW o, cfg' = cfg, obstacle'.enabled = obstacle.enabled,
         inflation'.enabled = inflation.enabled, origin' = o, obstacle'.grid = g,
         static'.grid = s.grid, static'.enabled = s.enabled, static'.received = s.received
  PROVE  Whole' = L!InflationCosts(Base(s, g, L!Blank, o, 0, L_W), 0, L_W)
<1>1. \A m : L!InflationCosts(m, 0, L_W)' = L!InflationCosts(m, 0, L_W)
  BY DEF L!InflationCosts
<1>2. \A v, m : L!ObstacleCosts(v, m, 0, L_W)' = L!ObstacleCosts(v, m, 0, L_W)
  BY DEF L!ObstacleCosts
<1>3. \A m : L!StaticCosts(static', m, o, 0, L_W) = L!StaticCosts(s, m, o, 0, L_W)
  BY DEF L!StaticCosts
<1>4. Base(static, obstacle.grid, L!Blank, origin, 0, L_W)' = Base(s, g, L!Blank, o, 0, L_W)
  BY <1>2, <1>3 DEF Base
<1>. QED
  BY <1>1, <1>4 DEF Whole

(* A rolling window moves with the robot and keeps it inside.               *)
LEMMA WindowFollows ==
  ASSUME NEW p \in L_Robots, origin \in Int
  PROVE  LET o == origin + L!CellShift(p, origin)
         IN o \in -L!Far..L!Far - L_W /\ p \div 4 \in Int /\ L!InGrid(p \div 4, o)
<1> DEFINE d == p - (2 * L_W - 1) - 4 * origin
           o == origin + L!CellShift(p, origin)
<1>1. L_W \in 2..500 /\ p \in -1000..1000 /\ d \in Int
  BY LayersAssumption
<1>2. o \in Int /\ 2 * L_W - 4 <= p - 4 * o /\ p - 4 * o <= 2 * L_W + 2
  <2>1. CASE d >= 0
    <3>1. L!CellShift(p, origin) = d \div 4
      BY <2>1 DEF L!CellShift
    <3> HIDE DEF d
    <3>2. d \div 4 \in Int /\ 4 * (d \div 4) <= d /\ d < 4 * (d \div 4) + 4
      BY <1>1
    <3>. QED
      BY <1>1, <3>1, <3>2 DEF d
  <2>2. CASE ~(d >= 0)
    <3>1. L!CellShift(p, origin) = -((-d) \div 4)
      BY <2>2 DEF L!CellShift
    <3> HIDE DEF d
    <3>2. (-d) \div 4 \in Int /\ 4 * ((-d) \div 4) <= -d /\ -d < 4 * ((-d) \div 4) + 4
      BY <1>1
    <3>. QED
      BY <1>1, <3>1, <3>2 DEF d
  <2>. QED
    BY <2>1, <2>2
<1> HIDE DEF o, d
<1>3. p \div 4 \in Int /\ 4 * (p \div 4) <= p /\ p < 4 * (p \div 4) + 4
  BY <1>1
<1>4. o \in -1000..1000 - L_W
  <2>1. L_W \in Int /\ p \in Int /\ 2 <= L_W /\ L_W <= 500 /\ -1000 <= p /\ p <= 1000
    BY <1>1
  <2>2. -2002 <= 4 * o
    BY <1>2, <2>1
  <2>3. 4 * o <= 1000
    BY <1>2, <2>1
  <2>4. -501 <= o /\ o <= 250
    BY <1>2, <2>2, <2>3
  <2>5. 250 <= 1000 - L_W
    BY <2>1
  <2>. QED
    BY <1>2, <2>1, <2>4, <2>5
<1>5. p \div 4 - o \in 0..L_W - 1
  BY <1>1, <1>2, <1>3
<1>. QED
  BY <1>3, <1>4, <1>5 DEF o, L!Far, L!InGrid, L!Cells

LEMMA StaticLoads ==
  ASSUME LayersType
  PROVE  LET s == L!LoadedStatic
         IN /\ s \in [grid : CellGrid, buffer : {<<>>} \union {<<m>> : m \in L_StaticMaps},
                      received : BOOLEAN, updated : BOOLEAN, enabled : BOOLEAN]
            /\ s.received = static.received /\ s.enabled = static.enabled
            /\ static.received /\ (static.updated \/ static.buffer # <<>>) => s.updated
            /\ ~(static.received /\ static.buffer # <<>>) => s = static
            /\ s.received => s.buffer = <<>>
<1> DEFINE s == L!LoadedStatic
           kind == [grid : CellGrid, buffer : {<<>>} \union {<<m>> : m \in L_StaticMaps},
                    received : BOOLEAN, updated : BOOLEAN, enabled : BOOLEAN]
<1>1. static \in kind
  BY DEF LayersType
<1>2. CASE static.received /\ static.buffer # <<>>
  <2> DEFINE read == [i \in L!Cells |-> L!InterpretValue(static.buffer[1][i])]
  <2>1. read \in CellGrid
    BY DEF CellGrid, L!InterpretValue, L!NoInfo, L!Lethal, L!Free
  <2>2. s = [static EXCEPT !.grid = read, !.updated = TRUE, !.buffer = <<>>]
    BY <1>2 DEF L!LoadedStatic, L!ProcessMap
  <2> HIDE DEF read, s
  <2>. QED
    BY <1>1, <1>2, <2>1, <2>2 DEF s
<1>3. CASE ~(static.received /\ static.buffer # <<>>)
  <2>1. s = static
    BY <1>3 DEF L!LoadedStatic
  <2>. QED
    BY <1>1, <1>3, <2>1
<1>. QED
  BY <1>2, <1>3

StaticLayers ==
  [grid : CellGrid, buffer : {<<>>} \union {<<m>> : m \in L_StaticMaps},
   received : BOOLEAN, updated : BOOLEAN, enabled : BOOLEAN]
ObstacleLayers == [grid : CellGrid, origin : Int, extra : Bounds, enabled : BOOLEAN]
InflationLayers == [last : Bounds, again : BOOLEAN, enabled : BOOLEAN]

(* What an update with the layers' bounds b does: s and g are what the      *)
(* static and the obstacle layer hold then, o is where the window is.       *)
Updating(s, g, o, b, lo, hi, hits) ==
  /\ s \in StaticLayers /\ g \in CellGrid /\ b \in Bounds /\ lo \in 0..L_W - 1 /\ hi \in 1..L_W
  /\ o \in -L!Far..L!Far - L_W /\ (~cfg.rolling => o = 0)
  /\ s.received = static.received /\ s.enabled = static.enabled /\ (~Pending => s = static)
  /\ \A i \in L!Cells : g[i] = L!Lethal => Moved(o)[i] = L!Lethal \/ o + i \in hits
  /\ \A i \in L!Cells : ~(b.lo <= o + i /\ o + i <= b.hi) => g[i] = Moved(o)[i]
  /\ \A i \in L!Cells : b.lo - L_Radius <= o + i /\ o + i <= b.hi + L_Radius => i \in lo..hi - 1
  /\ s.received /\ cfg.rolling => \A i \in L!Cells : o + i \in L!Cells => i \in lo..hi - 1
  /\ ~cfg.rolling /\ Pending => lo = 0 /\ hi = L_W

Results(s, g, o) ==
  /\ origin' = o /\ cfg' = cfg /\ masked' = masked /\ fresh' = TRUE /\ (cfg.rolling => inWindow')
  /\ static' \in StaticLayers /\ static'.grid = s.grid /\ static'.enabled = s.enabled
  /\ static'.received = s.received
  /\ obstacle' \in ObstacleLayers /\ obstacle'.grid = g /\ obstacle'.origin = o
  /\ obstacle'.enabled = obstacle.enabled
  /\ inflation' \in InflationLayers /\ inflation'.enabled = inflation.enabled

\* the last part of updateMap(), when all that it computes is known
LastStep(o, r, s, g, b, lo, hi) ==
     /\ origin' = o
     /\ inWindow' = L!InGrid(r, o)
     /\ static' = IF s.received /\ (cfg.rolling \/ s.updated)
                  THEN [s EXCEPT !.updated = FALSE] ELSE s
     /\ obstacle' = L!ObstacleUpdate(b, g, o)
     /\ inflation' = [inflation EXCEPT !.last = b, !.again = FALSE]
     /\ L!UpdateCosts(s, g, o, lo, hi)
     /\ synced' = (synced \/ (lo = 0 /\ hi = L_W))
     /\ fresh' = TRUE
     /\ UNCHANGED <<cfg, masked>>

LEMMA UpdateSteps ==
  ASSUME NEW p, NEW hits, NEW clearing, L!UpdateMap(p, hits, clearing)
  PROVE  \E o \in {IF cfg.rolling THEN origin + L!CellShift(p, origin) ELSE origin},
            r \in {p \div 4}, s \in {L!LoadedStatic} :
         \E g \in {L!ObservedGrid(o, r, hits, clearing)},
            b \in {L!ObstacleBounds(L!StaticBounds(s, L!NoBounds), o, r, hits, clearing)} :
         \E c \in {L!InflationBounds(b)} :
         \E lo \in {L!WorldToMapEnforceBounds(c.lo, o)},
            hi \in {L!Least({L_W, L!WorldToMapEnforceBounds(c.hi, o) + 1})} :
         LastStep(o, r, s, g, b, lo, hi)
  BY DEF L!UpdateMap, LastStep

LEMMA UpdateFacts ==
  ASSUME LayersInv, NEW p \in L_Robots, NEW hits \in L_Scans, NEW clearing \in {{}, hits},
         L!UpdateMap(p, hits, clearing)
  PROVE  \E s, g, o, b, lo, hi :
           /\ Updating(s, g, o, b, lo, hi, hits) /\ Results(s, g, o)
           /\ synced' = (synced \/ (lo = 0 /\ hi = L_W))
           /\ L!UpdateCosts(s, g, o, lo, hi)
<1> DEFINE o == IF cfg.rolling THEN origin + L!CellShift(p, origin) ELSE origin
           r == p \div 4
           s == L!LoadedStatic
           g == L!ObservedGrid(o, r, hits, clearing)
           first == L!StaticBounds(s, L!NoBounds)
           b == L!ObstacleBounds(first, o, r, hits, clearing)
           c == L!InflationBounds(b)
           lo == L!WorldToMapEnforceBounds(c.lo, o)
           hi == L!Least({L_W, L!WorldToMapEnforceBounds(c.hi, o) + 1})
<1>0. /\ L_W \in 2..500 /\ L_Radius \in Nat /\ L!Cells = 0..L_W - 1 /\ p \in Int /\ hits \in SUBSET Int
      /\ clearing \in SUBSET Int
  <2>1. L_W \in 2..500 /\ L_Radius \in Nat /\ L!Cells = 0..L_W - 1 /\ p \in -1000..1000
    BY LayersAssumption DEF L!Cells
  <2>2. hits \in SUBSET Int
    BY LayersAssumption
  <2>3. clearing \in SUBSET Int
    <3>1. clearing = {} \/ clearing = hits
      OBVIOUS
    <3>. QED
      BY <2>2, <3>1
  <2>4. p \in Int
    BY <2>1
  <2>. QED
    BY <2>1, <2>2, <2>3, <2>4
<1>1. /\ static \in StaticLayers /\ obstacle \in ObstacleLayers /\ inflation \in InflationLayers
      /\ origin \in -L!Far..L!Far - L_W /\ obstacle.origin = origin /\ (~cfg.rolling => origin = 0)
      /\ cfg.rolling \in BOOLEAN
  BY LayersAssumption DEF LayersInv, LayersType, WindowInv, StaticLayers, ObstacleLayers, InflationLayers
<1>2. /\ origin' = o /\ cfg' = cfg /\ masked' = masked /\ fresh' = TRUE /\ inWindow' = L!InGrid(r, o)
      /\ static' = IF s.received /\ (cfg.rolling \/ s.updated) THEN [s EXCEPT !.updated = FALSE] ELSE s
      /\ obstacle' = L!ObstacleUpdate(b, g, o)
      /\ inflation' = [inflation EXCEPT !.last = b, !.again = FALSE]
      /\ synced' = (synced \/ (lo = 0 /\ hi = L_W))
      /\ L!UpdateCosts(s, g, o, lo, hi)
  <2> DEFINE Window(o1, r1, s1, g1, b1, c1) ==
               LastStep(o1, r1, s1, g1, b1, L!WorldToMapEnforceBounds(c1.lo, o1),
                    L!Least({L_W, L!WorldToMapEnforceBounds(c1.hi, o1) + 1}))
             Inflating(o1, r1, s1, g1, b1) == Window(o1, r1, s1, g1, b1, L!InflationBounds(b1))
             Observing(o1, r1, s1) ==
               Inflating(o1, r1, s1, L!ObservedGrid(o1, r1, hits, clearing),
                         L!ObstacleBounds(L!StaticBounds(s1, L!NoBounds), o1, r1, hits, clearing))
  <2>1. \E o1 \in {o}, r1 \in {r}, s1 \in {s} :
          \E g1 \in {L!ObservedGrid(o1, r1, hits, clearing)},
             b1 \in {L!ObstacleBounds(L!StaticBounds(s1, L!NoBounds), o1, r1, hits, clearing)} :
          \E c1 \in {L!InflationBounds(b1)} :
          \E lo1 \in {L!WorldToMapEnforceBounds(c1.lo, o1)},
             hi1 \in {L!Least({L_W, L!WorldToMapEnforceBounds(c1.hi, o1) + 1})} :
             LastStep(o1, r1, s1, g1, b1, lo1, hi1)
    BY UpdateSteps
  <2>2. Observing(o, r, s)
    <3> HIDE DEF o, r, s
    <3>. QED
      BY <2>1
  <2> HIDE DEF Observing, Inflating, Window, o, r, s, g, first, b, c, lo, hi
  <2>3. Inflating(o, r, s, g, b)
    BY <2>2 DEF Observing, g, first, b
  <2>4. Window(o, r, s, g, b, c)
    BY <2>3 DEF Inflating, c
  <2>5. LastStep(o, r, s, g, b, lo, hi)
    BY <2>4 DEF Window, lo, hi
  <2>. QED
    BY <2>5 DEF LastStep
<1>3. r \in Int /\ o \in -L!Far..L!Far - L_W /\ o \in Int /\ (cfg.rolling => L!InGrid(r, o)) /\ (~cfg.rolling => o = 0)
  <2>1. origin \in Int
    BY <1>1 DEF L!Far
  <2>2. r \in Int /\ (cfg.rolling => o \in -L!Far..L!Far - L_W /\ L!InGrid(r, o))
    BY <2>1, WindowFollows
  <2> HIDE DEF r
  <2>. QED
    BY <1>0, <1>1, <2>2 DEF L!Far
<1>4. /\ s \in StaticLayers /\ s.received = static.received /\ s.enabled = static.enabled
      /\ static.received /\ (static.updated \/ static.buffer # <<>>) => s.updated
      /\ ~(static.received /\ static.buffer # <<>>) => s = static
  BY StaticLoads DEF LayersInv, StaticLayers
<1>5. first \in Bounds /\ (s.received /\ (cfg.rolling \/ s.updated) => first.lo <= 0 /\ L_W <= first.hi)
  <2>1. L!NoBounds \in Bounds
    BY DEF L!NoBounds, Bounds, L!Far
  <2>2. {0, L_W} \subseteq 0..L_W /\ 0 \in Int /\ L_W \in Int
    BY <1>0
  <2>3. L!Touch(L!NoBounds, {0, L_W}) \in Bounds
        /\ \A x \in {0, L_W} : L!Touch(L!NoBounds, {0, L_W}).lo <= x /\ x <= L!Touch(L!NoBounds, {0, L_W}).hi
    BY <2>1, <2>2, TouchCovers
  <2> HIDE DEF s
  <2>. QED
    BY <2>1, <2>3 DEF L!StaticBounds
<1>6. /\ g \in CellGrid
      /\ b \in Bounds /\ b.lo <= first.lo /\ first.hi <= b.hi
      /\ obstacle.enabled => b.lo <= obstacle.extra.lo /\ obstacle.extra.hi <= b.hi
      /\ \A i \in L!Cells : g[i] = L!Lethal => Moved(o)[i] = L!Lethal \/ o + i \in hits
      /\ \A i \in L!Cells : ~(b.lo <= o + i /\ o + i <= b.hi) => g[i] = Moved(o)[i]
  <2>1. o \in Int /\ r \in Int /\ first \in Bounds /\ hits \in CellSets /\ clearing \in CellSets
    BY <1>0, <1>3, <1>5 DEF CellSets
  <2>2. LayersType
    BY DEF LayersInv
  <2> HIDE DEF o, r, first
  <2>3. Observed(o, r, hits, clearing, first)
    BY <2>1, <2>2, ObservedAt
  <2>. QED
    BY <2>3 DEF Observed
<1> HIDE DEF o, r, s, g, first, b
<1>7. /\ c \in Bounds /\ (inflation.again => c.lo = -1000 /\ c.hi = 1000)
      /\ (~inflation.again => c.lo <= b.lo - L_Radius /\ b.hi + L_Radius <= c.hi)
  <2>1. inflation.last.lo \in Int /\ inflation.last.hi \in Int /\ b.lo \in Int /\ b.hi \in Int
    BY <1>1, <1>6 DEF InflationLayers, Bounds
  <2>2. L!Least({inflation.last.lo, b.lo}) \in Int /\ L!Least({inflation.last.lo, b.lo}) <= b.lo
        /\ L!Greatest({inflation.last.hi, b.hi}) \in Int /\ b.hi <= L!Greatest({inflation.last.hi, b.hi})
    <3>1. L!Least({inflation.last.lo, b.lo}) =
            (IF inflation.last.lo <= b.lo THEN inflation.last.lo ELSE b.lo)
      BY <2>1, EndsOfTwo
    <3>2. L!Greatest({inflation.last.hi, b.hi}) =
            (IF inflation.last.hi <= b.hi THEN b.hi ELSE inflation.last.hi)
      BY <2>1, EndsOfTwo
    <3>. QED
      BY <2>1, <3>1, <3>2
  <2>. QED
    BY <1>0, <2>1, <2>2 DEF L!InflationBounds, L!Everything, L!Far, Bounds
<1>8. /\ lo \in 0..L_W - 1 /\ hi \in 1..L_W
      /\ \A i \in L!Cells : c.lo <= o + i /\ o + i <= c.hi => i \in lo..hi - 1
      /\ c.lo <= o /\ o + L_W - 1 <= c.hi => lo = 0 /\ hi = L_W
  <2> HIDE DEF c
  <2>. QED
    BY <1>3, <1>7, WindowCovers
<1> HIDE DEF c, lo, hi
<1>9. inflation.again => lo = 0 /\ hi = L_W
  BY <1>0, <1>3, <1>7, <1>8 DEF L!Far
<1>10. ASSUME NEW i \in L!Cells, b.lo - L_Radius <= o + i, o + i <= b.hi + L_Radius PROVE i \in lo..hi - 1
  <2>1. CASE inflation.again
    BY <1>0, <1>9, <2>1
  <2>2. CASE ~inflation.again
    <3>1. b.lo \in Int /\ b.hi \in Int /\ c.lo \in Int /\ c.hi \in Int /\ i \in Int
      BY <1>0, <1>6, <1>7 DEF Bounds
    <3>2. c.lo <= o + i /\ o + i <= c.hi
      <4>1. o + i \in Int
        BY <1>3, <3>1
      <4>2. c.lo <= b.lo - L_Radius /\ b.hi + L_Radius <= c.hi
        BY <1>7, <2>2
      <4>. QED
        BY <1>0, <1>10, <3>1, <4>1, <4>2
    <3>. QED
      BY <1>8, <3>2
  <2>. QED
    BY <2>1, <2>2
<1>11. s.received /\ (cfg.rolling \/ s.updated) => b.lo <= 0 /\ L_W <= b.hi
  <2>1. first.lo \in Int /\ first.hi \in Int /\ b.lo \in Int /\ b.hi \in Int
    BY <1>5, <1>6 DEF Bounds
  <2>2. b.lo <= first.lo /\ first.hi <= b.hi
    BY <1>6
  <2>. QED
    BY <1>0, <1>5, <2>1, <2>2
<1>12. ASSUME s.received, cfg.rolling, NEW i \in L!Cells, o + i \in L!Cells PROVE i \in lo..hi - 1
  <2>1. b.lo \in Int /\ b.hi \in Int /\ b.lo <= 0 /\ L_W <= b.hi
    BY <1>6, <1>11, <1>12 DEF Bounds
  <2>2. b.lo - L_Radius <= o + i /\ o + i <= b.hi + L_Radius
    BY <1>0, <1>3, <1>12, <2>1
  <2>. QED
    BY <1>10, <2>2
<1>13. ASSUME ~cfg.rolling, Pending PROVE lo = 0 /\ hi = L_W
  <2>1. CASE inflation.again
    BY <1>9, <2>1
  <2>2. CASE ~inflation.again
    <3>1. b.lo <= 0 /\ L_W <= b.hi /\ b.lo \in Int /\ b.hi \in Int
      <4>1. b.lo \in Int /\ b.hi \in Int /\ obstacle.extra.lo \in Int /\ obstacle.extra.hi \in Int
        BY <1>1, <1>6 DEF Bounds, ObstacleLayers
      <4>2. CASE static.received /\ (static.updated \/ static.buffer # <<>>)
        BY <1>4, <1>11, <4>1, <4>2
      <4>3. CASE obstacle.enabled /\ obstacle.extra.lo <= 0 /\ obstacle.extra.hi >= L_W
        BY <1>0, <1>6, <4>1, <4>3
      <4>. QED
        BY <1>13, <2>2, <4>2, <4>3 DEF Pending
    <3>2. c.lo \in Int /\ c.hi \in Int
      BY <1>7 DEF Bounds
    <3>3. c.lo <= o /\ o + L_W - 1 <= c.hi
      BY <1>0, <1>3, <1>7, <1>13, <2>2, <3>1, <3>2
    <3>. QED
      BY <1>8, <3>3
  <2>. QED
    BY <2>1, <2>2
<1>14. ~Pending => s = static
  BY <1>4 DEF Pending
<1>15. Updating(s, g, o, b, lo, hi, hits)
  BY <1>3, <1>4, <1>6, <1>8, <1>10, <1>12, <1>13, <1>14 DEF Updating
<1>16. Results(s, g, o)
  <2>1. static' \in StaticLayers /\ static'.grid = s.grid /\ static'.enabled = s.enabled
        /\ static'.received = s.received
    BY <1>2, <1>4 DEF StaticLayers
  <2>2. obstacle' \in ObstacleLayers /\ obstacle'.grid = g /\ obstacle'.origin = o
        /\ obstacle'.enabled = obstacle.enabled
    <3>1. L!NoBounds \in Bounds
      BY DEF L!NoBounds, Bounds, L!Far
    <3>. QED
      BY <1>1, <1>2, <1>3, <1>6, <3>1 DEF L!ObstacleUpdate, ObstacleLayers
  <2>3. inflation' \in InflationLayers /\ inflation'.enabled = inflation.enabled
    BY <1>1, <1>2, <1>6 DEF InflationLayers
  <2>. QED
    BY <1>2, <1>3, <2>1, <2>2, <2>3 DEF Results
<1>. QED
  BY <1>2, <1>15, <1>16

(* After an update the master grid is what an update of every cell would    *)
(* give: either it was one, or nothing outside its window has changed.      *)
LEMMA UpdateMatches ==
  ASSUME LayersInv, NEW s, NEW g, NEW o, NEW b, NEW lo, NEW hi, NEW hits,
         Updating(s, g, o, b, lo, hi, hits), Results(s, g, o), L!UpdateCosts(s, g, o, lo, hi),
         ~cfg.rolling, synced \/ (lo = 0 /\ hi = L_W)
  PROVE  Matches'
<1> DEFINE m == IF cfg.filtered THEN primary ELSE master
           n == Base(s, g, L!Blank, o, 0, L_W)
           q == Base(s, g, m, o, lo, hi)
           done == L!InflationCosts(q, lo, hi)
           whole == L!InflationCosts(n, 0, L_W)
<1>0. /\ L_W \in 2..500 /\ L_Radius \in Nat /\ L!Cells = 0..L_W - 1 /\ 0 \in Int /\ L_W \in Int
      /\ cfg.filtered \in BOOLEAN
  BY LayersAssumption DEF LayersInv, LayersType, L!Cells
<1>1. /\ primary \in CellGrid /\ master \in CellGrid /\ obstacle.grid \in CellGrid /\ static.grid \in CellGrid
      /\ origin = 0
  BY DEF LayersInv, LayersType, WindowInv
<1>2. /\ s.grid \in CellGrid /\ g \in CellGrid /\ lo \in 0..L_W - 1 /\ hi \in 1..L_W /\ o = 0
      /\ b.lo \in Int /\ b.hi \in Int
  BY DEF Updating, StaticLayers, Bounds
<1>3. \A x : Kept(x, o) = x
  BY DEF Kept
<1>4. /\ m \in CellGrid /\ done \in CellGrid
      /\ IF cfg.filtered
         THEN /\ primary' = done /\ master' \in CellGrid
              /\ \A i \in L!Cells : master'[i] =
                   IF i \in lo..hi - 1 THEN IF masked /\ o + i = L!MaskCell THEN L!Lethal ELSE done[i]
                                       ELSE master[i]
         ELSE master' = done
  <2>1. LayersType
    BY DEF LayersInv
  <2>2. o \in Int
    BY <1>2
  <2>. QED
    BY <1>2, <1>3, <2>1, <2>2, CostsOfUpdate
<1>5. Whole' = whole
  BY WholeAfter DEF Results
<1>6. n \in CellGrid /\ \A i \in L!Cells : n[i] = Combined(g[i], StaticValue(s, o + i))
  <2>0. L!Blank \in CellGrid
    BY DEF L!Blank, CellGrid, L!Default, L!NoInfo
  <2>1. s.grid \in CellGrid /\ g \in CellGrid /\ L!Blank \in CellGrid /\ o \in Int /\ 0 \in Int /\ L_W \in Int
    BY <1>0, <1>2, <2>0
  <2>2. /\ n \in CellGrid
        /\ \A i \in L!Cells : n[i] = IF i \in 0..L_W - 1 THEN Combined(g[i], StaticValue(s, o + i)) ELSE L!Blank[i]
    BY <2>1, BaseAt
  <2> HIDE DEF n
  <2>. QED
    BY <1>0, <2>2
<1>7. q \in CellGrid
      /\ \A i \in L!Cells : q[i] = IF i \in lo..hi - 1 THEN Combined(g[i], StaticValue(s, o + i)) ELSE m[i]
  <2>1. s.grid \in CellGrid /\ g \in CellGrid /\ m \in CellGrid /\ lo \in Int /\ hi \in Int /\ o \in Int
    BY <1>2, <1>4
  <2> HIDE DEF m
  <2>. QED
    BY <2>1, BaseAt
<1> HIDE DEF n, q
<1>8. CASE lo = 0 /\ hi = L_W
  <2>1. q = n
    <3>1. \A i \in L!Cells : q[i] = n[i]
      BY <1>0, <1>6, <1>7, <1>8
    <3>. QED
      BY <1>6, <1>7, <3>1 DEF CellGrid
  <2>2. done = whole
    BY <1>8, <2>1
  <2> HIDE DEF done, whole, m
  <2>3. CASE ~cfg.filtered
    BY <1>4, <1>5, <2>2, <2>3 DEF Matches, Results
  <2>4. CASE cfg.filtered
    <3>1. primary' = whole /\ master' \in CellGrid
          /\ \A i \in L!Cells : master'[i] = IF masked /\ o + i = L!MaskCell THEN L!Lethal ELSE whole[i]
      BY <1>0, <1>4, <1>8, <2>2, <2>4
    <3>2. L!FilterCosts(Whole, origin, 0, L_W)' =
            [i \in L!Cells |-> IF masked /\ o + i = L!MaskCell THEN L!Lethal ELSE whole[i]]
      BY <1>0, <1>5 DEF L!FilterCosts, Results
    <3>3. master' = L!FilterCosts(Whole, origin, 0, L_W)'
      BY <3>1, <3>2 DEF CellGrid
    <3>4. cfg'.filtered
      BY <2>4 DEF Results
    <3>. QED
      BY <1>5, <3>1, <3>3, <3>4 DEF Matches
  <2>. QED
    BY <2>3, <2>4
<1>9. CASE ~(lo = 0 /\ hi = L_W)
  <2> DEFINE f == Base(static, obstacle.grid, L!Blank, origin, 0, L_W)
             old == L!InflationCosts(f, 0, L_W)
  <2>1. ~Pending /\ Matches /\ s = static
    BY <1>9 DEF Updating, LayersInv, MatchInv
  <2>2. f \in CellGrid /\ \A i \in L!Cells : f[i] = Combined(obstacle.grid[i], StaticValue(s, o + i))
    <3>1. L!Blank \in CellGrid /\ origin \in Int
      BY <1>1 DEF L!Blank, CellGrid, L!Default, L!NoInfo
    <3>2. /\ f \in CellGrid
          /\ \A i \in L!Cells : f[i] = IF i \in 0..L_W - 1 THEN Combined(obstacle.grid[i], StaticValue(static, origin + i)) ELSE L!Blank[i]
      <4>1. static.grid \in CellGrid /\ obstacle.grid \in CellGrid /\ 0 \in Int /\ L_W \in Int
        BY <1>0, <1>1
      <4>. QED
        BY <3>1, <4>1, BaseAt
    <3> HIDE DEF f
    <3>. QED
      BY <1>0, <1>1, <1>2, <2>1, <3>2
  <2>3. old = Whole
    BY DEF Whole
  <2>4. old \in CellGrid
    <3> HIDE DEF f
    <3>. QED
      BY <2>2, InflationOfAll
  <2> HIDE DEF f, old
  <2>5. m = old
    BY <2>1, <2>3 DEF Matches
  <2>6. ASSUME NEW i \in L!Cells, ~(b.lo <= i /\ i <= b.hi) PROVE n[i] = f[i]
    <3>1. i \in Int /\ o + i = i
      BY <1>0, <1>2
    <3>2. g[i] = Moved(o)[i]
      BY <2>6, <3>1 DEF Updating
    <3>3. Moved(o)[i] = obstacle.grid[i]
      BY DEF Moved
    <3>. QED
      BY <1>6, <2>2, <3>2, <3>3
  <2>7. ASSUME NEW i \in L!Cells, b.lo - L_Radius <= i, i <= b.hi + L_Radius PROVE i \in lo..hi - 1
    <3>1. i \in Int /\ o + i = i
      BY <1>0, <1>2
    <3>. QED
      BY <2>7, <3>1 DEF Updating
  <2>8. \A i \in L!Cells : q[i] = IF i \in lo..hi - 1 THEN n[i] ELSE L!InflationCosts(f, 0, L_W)[i]
    BY <1>6, <1>7, <2>5 DEF old
  <2>9. done = whole
    <3>1. \A i \in L!Cells : ~(b.lo <= i /\ i <= b.hi) => n[i] = f[i]
      BY <2>6
    <3>2. \A i \in L!Cells : b.lo - L_Radius <= i /\ i <= b.hi + L_Radius => i \in lo..hi - 1
      BY <2>7
    <3>3. /\ f \in CellGrid /\ n \in CellGrid /\ q \in CellGrid /\ lo \in 0..L_W - 1 /\ hi \in 1..L_W
          /\ b.lo \in Int /\ b.hi \in Int
      BY <1>2, <1>6, <1>7, <2>2
    <3>. QED
      BY <2>8, <3>1, <3>2, <3>3, PartIsWhole
  <2>10. \A i \in L!Cells : i \notin lo..hi - 1 => done[i] = old[i]
    <3>1. \A i \in L!Cells : i \notin lo..hi - 1 => done[i] = q[i]
      BY <1>2, <1>7, InflationAt
    <3>. QED
      BY <1>7, <2>5, <3>1
  <2> HIDE DEF done, whole, m
  <2>11. CASE ~cfg.filtered
    BY <1>4, <1>5, <2>9, <2>11 DEF Matches, Results
  <2>12. CASE cfg.filtered
    <3>1. master = L!FilterCosts(old, origin, 0, L_W)
      BY <2>1, <2>3, <2>12 DEF Matches
    <3>2. \A i \in L!Cells : master[i] = IF masked /\ o + i = L!MaskCell THEN L!Lethal ELSE old[i]
      BY <1>0, <1>1, <1>2, <3>1 DEF L!FilterCosts
    <3>3. primary' = whole /\ master' \in CellGrid
          /\ \A i \in L!Cells : master'[i] = IF masked /\ o + i = L!MaskCell THEN L!Lethal ELSE whole[i]
      BY <1>4, <2>9, <2>10, <2>12, <3>2
    <3>4. L!FilterCosts(Whole, origin, 0, L_W)' =
            [i \in L!Cells |-> IF masked /\ o + i = L!MaskCell THEN L!Lethal ELSE whole[i]]
      BY <1>0, <1>5 DEF L!FilterCosts, Results
    <3>5. master' = L!FilterCosts(Whole, origin, 0, L_W)'
      BY <3>3, <3>4 DEF CellGrid
    <3>6. cfg'.filtered
      BY <2>12 DEF Results
    <3>. QED
      BY <1>5, <3>3, <3>5, <3>6 DEF Matches
  <2>. QED
    BY <2>11, <2>12
<1>. QED
  BY <1>8, <1>9

(* A cell of the base is lethal where one of its layers is.                 *)
LEMMA LethalOf ==
  ASSUME NEW v \in 0..255, NEW a \in 0..255
  PROVE  /\ Combined(v, a) = L!Lethal => a = L!Lethal \/ v = L!Lethal
         /\ v = L!Lethal /\ obstacle.enabled /\ ~cfg.overwrite => Combined(v, a) = L!Lethal
  BY DEF Combined, L!Lethal, L!NoInfo

LEMMA UpdateMapOK ==
  ASSUME LayersInv, NEW p \in L_Robots, NEW hits \in L_Scans, NEW clearing \in {{}, hits},
         L!UpdateMap(p, hits, clearing)
  PROVE  LayersInv'
<1>1. PICK s, g, o, b, lo, hi :
           /\ Updating(s, g, o, b, lo, hi, hits) /\ Results(s, g, o)
           /\ synced' = (synced \/ (lo = 0 /\ hi = L_W))
           /\ L!UpdateCosts(s, g, o, lo, hi)
  BY UpdateFacts
<1> DEFINE m == Kept(IF cfg.filtered THEN primary ELSE master, o)
           q == Base(s, g, m, o, lo, hi)
           done == L!InflationCosts(q, lo, hi)
<1>2. /\ L_W \in 2..500 /\ L!Cells = 0..L_W - 1 /\ cfg.filtered \in BOOLEAN /\ cfg.rolling \in BOOLEAN
      /\ LayersType /\ cfg \in L_Configs /\ origin \in Int /\ obstacle.origin = origin
      /\ obstacle.grid \in CellGrid /\ static.grid \in CellGrid /\ master \in CellGrid
      /\ masked \in BOOLEAN /\ synced \in BOOLEAN
  BY LayersAssumption DEF LayersInv, LayersType, WindowInv, L!Cells
<1>3. /\ s.grid \in CellGrid /\ g \in CellGrid /\ lo \in 0..L_W - 1 /\ hi \in 1..L_W
      /\ o \in -L!Far..L!Far - L_W /\ o \in Int
  BY <1>1 DEF Updating, StaticLayers, L!Far
<1>4. /\ m \in CellGrid /\ done \in CellGrid
      /\ IF cfg.filtered
         THEN /\ primary' = done /\ master' \in CellGrid
              /\ \A i \in L!Cells : master'[i] =
                   IF i \in lo..hi - 1 THEN IF masked /\ o + i = L!MaskCell THEN L!Lethal ELSE done[i]
                                       ELSE Kept(master, o)[i]
         ELSE primary' \in CellGrid /\ master' = done
  BY <1>1, <1>2, <1>3, CostsOfUpdate
<1>5. q \in CellGrid
      /\ \A i \in L!Cells : q[i] = IF i \in lo..hi - 1 THEN Combined(g[i], StaticValue(s, o + i)) ELSE m[i]
  <2>1. s.grid \in CellGrid /\ g \in CellGrid /\ m \in CellGrid /\ lo \in Int /\ hi \in Int /\ o \in Int
    BY <1>3, <1>4
  <2> HIDE DEF m
  <2>. QED
    BY <2>1, BaseAt
<1>6. \A i \in L!Cells : done[i] = L!Lethal <=> q[i] = L!Lethal
  <2> HIDE DEF q
  <2>. QED
    BY <1>3, <1>5, InflationAt
<1>7. \A i \in L!Cells : i \notin lo..hi - 1 => done[i] = m[i]
  <2>1. \A i \in L!Cells : i \notin lo..hi - 1 => done[i] = q[i]
    <3> HIDE DEF q
    <3>. QED
      BY <1>3, <1>5, InflationAt
  <2>. QED
    BY <1>5, <2>1
<1> HIDE DEF m, q, done
<1>8. ASSUME NEW i \in L!Cells PROVE g[i] \in 0..255 /\ StaticValue(s, o + i) \in 0..255
  BY <1>3 DEF CellGrid, StaticValue, L!Default, L!NoInfo
\* inside the window a cell is lethal where a layer or the mask says so, outside it stays
<1>9. ASSUME NEW i \in L!Cells, i \in lo..hi - 1
      PROVE  /\ master'[i] = L!Lethal => \/ masked /\ o + i = L!MaskCell
                                         \/ g[i] = L!Lethal \/ StaticValue(s, o + i) = L!Lethal
             /\ g[i] = L!Lethal /\ obstacle.enabled /\ ~cfg.overwrite => master'[i] = L!Lethal
  <2>1. q[i] = Combined(g[i], StaticValue(s, o + i))
    BY <1>5, <1>9
  <2>2. /\ done[i] = L!Lethal => g[i] = L!Lethal \/ StaticValue(s, o + i) = L!Lethal
        /\ g[i] = L!Lethal /\ obstacle.enabled /\ ~cfg.overwrite => done[i] = L!Lethal
    BY <1>6, <1>8, <2>1, LethalOf
  <2>3. master'[i] = IF cfg.filtered /\ masked /\ o + i = L!MaskCell THEN L!Lethal ELSE done[i]
    <3>1. CASE cfg.filtered
      BY <1>4, <1>9, <3>1
    <3>2. CASE ~cfg.filtered
      BY <1>4, <3>2
    <3>. QED
      BY <3>1, <3>2
  <2>. QED
    BY <2>2, <2>3
<1>10. ASSUME NEW i \in L!Cells, i \notin lo..hi - 1 PROVE master'[i] = Kept(master, o)[i]
  <2>1. CASE cfg.filtered
    BY <1>4, <1>10, <2>1
  <2>2. CASE ~cfg.filtered
    BY <1>4, <1>7, <1>10, <2>2 DEF m
  <2>. QED
    BY <2>1, <2>2
<1>11. LayersType' /\ WindowInv' /\ L!RobotInWindow'
  <2>1. origin' \in Int /\ primary' \in CellGrid /\ master' \in CellGrid
    BY <1>1, <1>3, <1>4 DEF Results
  <2>2. synced' \in BOOLEAN
    BY <1>1, <1>2
  <2>. QED
    BY <1>1, <1>2, <1>3, <2>1, <2>2 DEF Results, LayersType, WindowInv, L!RobotInWindow, Updating,
       StaticLayers, ObstacleLayers, InflationLayers
<1>12. MatchInv'
  BY <1>1, UpdateMatches DEF MatchInv, Results
<1>13. KeptInv'
  <2>1. SUFFICES ASSUME cfg.rolling, ~cfg.overwrite, obstacle.enabled, synced', NEW i \in L!Cells, g[i] = L!Lethal
                 PROVE  master'[i] = L!Lethal
    BY <1>1 DEF KeptInv, Results
  <2>2. CASE i \in lo..hi - 1
    BY <1>9, <2>1, <2>2
  <2>3. CASE i \notin lo..hi - 1
    <3>1. synced
      BY <1>1, <1>2, <2>1, <2>3
    <3>2. Moved(o)[i] = L!Lethal
      <4>1. b.lo \in Int /\ b.hi \in Int /\ i \in Int /\ L_Radius \in Nat
        BY <1>1, <1>2, LayersAssumption DEF Updating, Bounds
      <4>2. ~(b.lo - L_Radius <= o + i /\ o + i <= b.hi + L_Radius)
        BY <1>1, <2>3 DEF Updating
      <4>3. ~(b.lo <= o + i /\ o + i <= b.hi)
        BY <1>3, <4>1, <4>2
      <4>. QED
        BY <1>1, <2>1, <4>3 DEF Updating
    <3> DEFINE k == o - origin
    <3>3. k \in Int
      BY <1>2, <1>3
    <3>4. Moved(o) = L!MoveGrid(obstacle.grid, k) /\ Kept(master, o) = L!MoveGrid(master, k)
      BY <1>2, <2>1 DEF Moved, Kept
    <3> HIDE DEF k
    <3>5. i + k \in L!Cells /\ obstacle.grid[i + k] = L!Lethal
      <4>1. Moved(o)[i] = IF i + k \in L!Cells THEN obstacle.grid[i + k] ELSE L!Default
        <5>1. obstacle.grid \in CellGrid
          BY <1>2
        <5>. QED
          BY <3>3, <3>4, <5>1, MovedAt, Zenon
      <4>. QED
        BY <3>2, <4>1 DEF L!Default, L!NoInfo, L!Lethal
    <3>6. master[i + k] = L!Lethal
      BY <2>1, <3>1, <3>5 DEF LayersInv, KeptInv
    <3>7. Kept(master, o)[i] = L!Lethal
      BY <1>2, <3>3, <3>4, <3>5, <3>6, MovedAt
    <3>. QED
      BY <1>10, <2>3, <3>7
  <2>. QED
    BY <2>2, <2>3
<1>14. \A i \in L!Cells : g[i] = L!Lethal => o + i \in UNION L_Scans
  <2>1. SUFFICES ASSUME NEW i \in L!Cells, g[i] = L!Lethal PROVE o + i \in UNION L_Scans
    OBVIOUS
  <2>2. CASE o + i \in hits
    BY <2>2
  <2>3. CASE Moved(o)[i] = L!Lethal
    <3>1. CASE cfg.rolling
      <4> DEFINE k == o - origin
      <4>1. k \in Int /\ Moved(o) = L!MoveGrid(obstacle.grid, k)
        BY <1>2, <1>3, <3>1 DEF Moved
      <4>2. origin + (i + k) = o + i
        BY <1>2, <1>3
      <4> HIDE DEF k
      <4>3. i + k \in L!Cells /\ obstacle.grid[i + k] = L!Lethal
        <5>1. Moved(o)[i] = IF i + k \in L!Cells THEN obstacle.grid[i + k] ELSE L!Default
          <6>1. obstacle.grid \in CellGrid
            BY <1>2
          <6>. QED
            BY <2>1, <4>1, <6>1, MovedAt, Zenon
        <5>. QED
          BY <2>3, <5>1 DEF L!Default, L!NoInfo, L!Lethal
      <4>4. origin + (i + k) \in UNION L_Scans
        BY <4>3 DEF LayersInv, SeenInv
      <4>. QED
        BY <4>2, <4>4
    <3>2. CASE ~cfg.rolling
      <4>1. Moved(o) = obstacle.grid /\ o = origin
        BY <1>1, <3>2 DEF Moved, Updating, LayersInv, WindowInv
      <4>. QED
        BY <2>3, <4>1 DEF LayersInv, SeenInv
    <3>. QED
      BY <1>2, <3>1, <3>2
  <2>. QED
    BY <1>1, <2>1, <2>2, <2>3 DEF Updating
<1>15. SeenInv'
  <2>1. SUFFICES ASSUME cfg.rolling, NEW i \in L!Cells, master'[i] = L!Lethal
                 PROVE  \/ o + i \in UNION L_Scans
                        \/ masked /\ o + i = L!MaskCell
                        \/ static.received /\ o + i \in L!Cells /\ s.grid[o + i] = L!Lethal
    BY <1>1, <1>14 DEF SeenInv, Results, Updating
  <2>2. CASE i \in lo..hi - 1
    <3>1. StaticValue(s, o + i) = L!Lethal => static.received /\ o + i \in L!Cells /\ s.grid[o + i] = L!Lethal
      BY <1>1 DEF StaticValue, Updating, L!Default, L!NoInfo, L!Lethal
    <3>. QED
      BY <1>9, <1>14, <2>1, <2>2, <3>1
  <2>3. CASE i \notin lo..hi - 1
    <3> DEFINE k == o - origin
    <3>1. k \in Int /\ Kept(master, o) = L!MoveGrid(master, k)
      BY <1>2, <1>3, <2>1 DEF Kept
    <3>2. origin + (i + k) = o + i
      BY <1>2, <1>3
    <3> HIDE DEF k
    <3>3. i + k \in L!Cells /\ master[i + k] = L!Lethal
      <4>1. master \in CellGrid
        BY <1>2
      <4>2. Kept(master, o)[i] = IF i + k \in L!Cells THEN master[i + k] ELSE L!Default
        BY <3>1, <4>1, MovedAt, Zenon
      <4>3. Kept(master, o)[i] = L!Lethal
        BY <1>10, <2>1, <2>3
      <4>. QED
        BY <4>2, <4>3 DEF L!Default, L!NoInfo, L!Lethal
    <3>4. \/ o + i \in UNION L_Scans
          \/ masked /\ o + i = L!MaskCell
          \/ static.received /\ o + i \in L!Cells
      BY <2>1, <3>2, <3>3 DEF LayersInv, SeenInv
    <3>5. ~(static.received /\ o + i \in L!Cells)
      BY <1>1, <2>1, <2>3 DEF Updating
    <3>. QED
      BY <3>4, <3>5
  <2>. QED
    BY <2>2, <2>3
<1>. QED
  BY <1>11, <1>12, <1>13, <1>15 DEF LayersInv

(* What no message, service or parameter changes between two updates.       *)
Untouched ==
  /\ cfg' = cfg /\ origin' = origin /\ inWindow' = inWindow /\ primary' \in CellGrid /\ master' \in CellGrid
  /\ static' \in StaticLayers /\ (static.received => static'.received)
  /\ obstacle' \in ObstacleLayers /\ obstacle'.origin = obstacle.origin
  /\ inflation' \in InflationLayers /\ masked' \in BOOLEAN /\ (masked => masked')
  /\ fresh' = FALSE /\ synced' \in {synced, FALSE}
  /\ \A i \in L!Cells : obstacle'.grid[i] = L!Lethal => obstacle.grid[i] = L!Lethal
  /\ cfg.rolling => \/ master' = master
                    \/ \A i \in L!Cells : master'[i] # L!Lethal
  /\ synced' => master' = master \/ ~cfg.rolling
  /\ synced' => obstacle'.enabled = obstacle.enabled

LEMMA UntouchedOK ==
  ASSUME LayersInv, Untouched, ~cfg.rolling /\ synced' => Matches' \/ Pending'
  PROVE  LayersInv'
<1>1. LayersType'
  BY DEF LayersInv, LayersType, Untouched, StaticLayers, ObstacleLayers, InflationLayers
<1>2. WindowInv' /\ L!RobotInWindow'
  BY DEF LayersInv, WindowInv, Untouched, L!RobotInWindow
<1>3. MatchInv'
  BY DEF MatchInv, Untouched
<1>4. KeptInv'
  BY DEF LayersInv, KeptInv, Untouched
<1>5. SeenInv'
  <2>1. ASSUME NEW i \in L!Cells, obstacle'.grid[i] = L!Lethal PROVE origin' + i \in UNION L_Scans
    BY <2>1 DEF LayersInv, SeenInv, Untouched
  <2>2. ASSUME cfg.rolling, NEW i \in L!Cells, master'[i] = L!Lethal
        PROVE  \/ origin + i \in UNION L_Scans
               \/ masked /\ origin + i = L!MaskCell
               \/ static.received /\ origin + i \in L!Cells
    BY <2>2 DEF LayersInv, SeenInv, Untouched
  <2>. QED
    BY <2>1, <2>2 DEF SeenInv, Untouched
<1>. QED
  BY <1>1, <1>2, <1>3, <1>4, <1>5 DEF LayersInv

LEMMA LayersActionsOK ==
  ASSUME LayersInv, L!Next,
         ~\E p \in L_Robots, hits \in L_Scans : \E clearing \in {{}, hits} : L!UpdateMap(p, hits, clearing)
  PROVE  LayersInv'
<1>0. /\ L_W \in 2..500 /\ L!Cells = 0..L_W - 1 /\ LayersType /\ WindowInv
      /\ static \in StaticLayers /\ obstacle \in ObstacleLayers /\ inflation \in InflationLayers
      /\ masked \in BOOLEAN /\ synced \in BOOLEAN /\ primary \in CellGrid /\ master \in CellGrid
      /\ cfg.rolling \in BOOLEAN /\ (~cfg.rolling => origin = 0) /\ origin \in Int
  BY LayersAssumption DEF L!Cells, LayersInv, LayersType, WindowInv, StaticLayers, ObstacleLayers, InflationLayers
<1>1. L!Blank \in CellGrid /\ \A i \in L!Cells : L!Blank[i] # L!Lethal
  BY DEF L!Blank, CellGrid, L!Default, L!NoInfo, L!Lethal
<1>2. ~cfg.rolling /\ synced => Matches \/ Pending
  BY DEF LayersInv, MatchInv
<1>3. ASSUME NEW m \in L_StaticMaps, L!FirstMap(m) PROVE LayersInv'
  <2> DEFINE read == [i \in L!Cells |-> L!InterpretValue(m[i])]
  <2>1. read \in CellGrid
    BY DEF CellGrid, L!InterpretValue, L!NoInfo, L!Lethal, L!Free
  <2>2. static' = [static EXCEPT !.grid = read, !.updated = TRUE, !.buffer = <<>>, !.received = TRUE]
    BY <1>3 DEF L!FirstMap, L!ProcessMap
  <2>3. static' \in StaticLayers /\ static'.received /\ static'.updated
    <3> HIDE DEF read
    <3>. QED
      BY <1>0, <2>1, <2>2 DEF StaticLayers
  <2>4. obstacle' \in ObstacleLayers /\ obstacle'.origin = obstacle.origin /\ obstacle'.enabled = obstacle.enabled
        /\ \A i \in L!Cells : obstacle'.grid[i] = L!Lethal => obstacle.grid[i] = L!Lethal
    BY <1>0, <1>1, <1>3 DEF L!FirstMap, ObstacleLayers
  <2>5. Untouched
    BY <1>0, <1>1, <1>3, <2>3, <2>4 DEF L!FirstMap, Untouched
  <2>. QED
    BY <2>3, <2>5, UntouchedOK DEF Pending
<1>4. ASSUME NEW m \in L_StaticMaps, L!NextMap(m) PROVE LayersInv'
  <2>1. static' \in StaticLayers /\ static'.received /\ static'.buffer # <<>>
    <3>1. <<m>> # <<>>
      OBVIOUS
    <3>. QED
      BY <1>0, <1>4, <3>1 DEF L!NextMap, StaticLayers
  <2>2. Untouched
    BY <1>0, <1>4, <2>1 DEF L!NextMap, Untouched
  <2>. QED
    BY <2>1, <2>2, UntouchedOK DEF Pending
<1>5. ASSUME NEW x \in L_Updates, NEW v \in {0, 100}, L!IncomingUpdate(x, v) PROVE LayersInv'
  <2> DEFINE new == [static.grid EXCEPT ![x] = L!InterpretValue(v)]
  <2>1. static.grid \in CellGrid
    BY <1>0 DEF StaticLayers
  <2>2. new \in CellGrid
    <3>1. L!InterpretValue(v) \in 0..255
      BY DEF L!InterpretValue, L!NoInfo, L!Lethal, L!Free
    <3>. QED
      BY <2>1, <3>1 DEF CellGrid
  <2>3. static' = [static EXCEPT !.grid = new, !.updated = TRUE] /\ static.received
    BY <1>5 DEF L!IncomingUpdate
  <2>4. static' \in StaticLayers /\ static'.received /\ static'.updated
    <3> HIDE DEF new
    <3>. QED
      BY <1>0, <2>2, <2>3 DEF StaticLayers
  <2>5. Untouched
    BY <1>0, <1>5, <2>4 DEF L!IncomingUpdate, Untouched
  <2>. QED
    BY <2>4, <2>5, UntouchedOK DEF Pending
<1>6. ASSUME NEW p \in L_Robots, NEW invert \in BOOLEAN, L!ClearRegion(p, 6, invert) PROVE LayersInv'
  <2> DEFINE a == L!WorldToMapEnforceBounds((p - 6) \div 4, origin)
             z == L!WorldToMapEnforceBounds((p + 6) \div 4, origin)
             new == [i \in L!Cells |-> IF (a < i /\ i < z) = invert THEN obstacle.grid[i] ELSE L!NoInfo]
             wide == L!Widen(obstacle.extra, [lo |-> origin, hi |-> origin + L_W])
  <2>1. /\ obstacle' = [obstacle EXCEPT !.grid = new, !.extra = wide] /\ fresh' = FALSE
        /\ UNCHANGED <<cfg, origin, primary, master, static, inflation, masked, inWindow, synced>>
    BY <1>6 DEF L!ClearRegion
  <2> HIDE DEF a, z
  <2>2. obstacle.grid \in CellGrid /\ obstacle.extra \in Bounds /\ [lo |-> origin, hi |-> origin + L_W] \in Bounds
    BY <1>0 DEF ObstacleLayers, Bounds
  <2>3. wide \in Bounds /\ wide.lo <= origin /\ origin + L_W <= wide.hi
    BY <2>2, WidenCovers
  <2>4. new \in CellGrid /\ \A i \in L!Cells : new[i] = L!Lethal => obstacle.grid[i] = L!Lethal
    BY <2>2 DEF CellGrid, L!NoInfo, L!Lethal
  <2> HIDE DEF new, wide
  <2>5. obstacle' \in ObstacleLayers /\ obstacle'.grid = new /\ obstacle'.extra = wide
        /\ obstacle'.enabled = obstacle.enabled /\ obstacle'.origin = obstacle.origin
    BY <1>0, <2>1, <2>3, <2>4 DEF ObstacleLayers
  <2>6. Untouched
    BY <1>0, <2>1, <2>4, <2>5 DEF Untouched
  <2>7. ASSUME ~cfg.rolling, synced PROVE Matches' \/ Pending'
    <3>1. CASE obstacle.enabled
      <4>1. obstacle'.enabled /\ obstacle'.extra.lo <= 0 /\ obstacle'.extra.hi >= L_W
        BY <1>0, <2>3, <2>5, <2>7, <3>1 DEF Bounds
      <4>. QED
        BY <4>1 DEF Pending
    <3>2. CASE ~obstacle.enabled
      <4>1. Pending => Pending'
        BY <2>1, <3>2 DEF Pending
      <4>2. Whole' = L!InflationCosts(Base(static, new, L!Blank, origin, 0, L_W), 0, L_W)
        BY <2>1, <2>5, WholeAfter
      <4>3. Base(static, new, L!Blank, origin, 0, L_W) = Base(static, obstacle.grid, L!Blank, origin, 0, L_W)
        BY <3>2 DEF Base, L!ObstacleCosts
      <4>4. Whole' = Whole
        BY <4>2, <4>3 DEF Whole
      <4>5. L!FilterCosts(Whole, origin, 0, L_W)' = L!FilterCosts(Whole, origin, 0, L_W)
        BY <2>1, <4>4 DEF L!FilterCosts
      <4>6. Matches => Matches'
        BY <2>1, <4>4, <4>5 DEF Matches
      <4>. QED
        BY <1>2, <2>7, <4>1, <4>6
    <3>. QED
      BY <3>1, <3>2
  <2>. QED
    BY <2>1, <2>6, <2>7, UntouchedOK
<1>7. ASSUME L!ResetLayers PROVE LayersInv'
  <2>1. obstacle' \in ObstacleLayers /\ obstacle'.origin = obstacle.origin
        /\ \A i \in L!Cells : obstacle'.grid[i] = L!Lethal => obstacle.grid[i] = L!Lethal
    BY <1>0, <1>1, <1>7 DEF L!ResetLayers, ObstacleLayers
  <2>2. static' \in StaticLayers /\ static'.received = static.received
    BY <1>0, <1>7 DEF L!ResetLayers, StaticLayers
  <2>3. Untouched /\ ~synced'
    BY <1>0, <1>1, <1>7, <2>1, <2>2 DEF L!ResetLayers, Untouched
  <2>. QED
    BY <2>3, UntouchedOK
<1>8. ASSUME L!MaskReceived PROVE LayersInv'
  <2>1. Untouched /\ ~synced'
    BY <1>0, <1>8 DEF L!MaskReceived, Untouched
  <2>. QED
    BY <2>1, UntouchedOK
<1>9. ASSUME L!FootprintChanged \/ L!ToggleInflation PROVE LayersInv'
  <2>1. inflation' \in InflationLayers /\ inflation'.again
    BY <1>0, <1>9 DEF L!FootprintChanged, L!ToggleInflation, InflationLayers
  <2>2. Untouched
    BY <1>0, <1>9, <2>1 DEF L!FootprintChanged, L!ToggleInflation, Untouched
  <2>. QED
    BY <2>1, <2>2, UntouchedOK DEF Pending
<1>10. ASSUME L!ToggleStatic PROVE LayersInv'
  <2>1. static' \in StaticLayers /\ static'.received = static.received /\ static'.updated /\ static'.grid = static.grid
        /\ static'.buffer = static.buffer
    BY <1>0, <1>10 DEF L!ToggleStatic, StaticLayers
  <2>2. /\ fresh' = FALSE
        /\ UNCHANGED <<cfg, origin, primary, master, obstacle, inflation, masked, inWindow, synced>>
    BY <1>10 DEF L!ToggleStatic
  <2>3. Untouched
    BY <1>0, <2>1, <2>2 DEF Untouched
  <2>4. ASSUME ~cfg.rolling, synced PROVE Matches' \/ Pending'
    <3>1. CASE static.received
      BY <2>1, <3>1 DEF Pending
    <3>2. CASE ~static.received
      <4>1. Pending => Pending'
        BY <2>1, <2>2, <3>2 DEF Pending
      <4>2. Whole' = L!InflationCosts(Base(static', obstacle.grid, L!Blank, origin, 0, L_W), 0, L_W)
        BY <2>2, WholeAfter
      <4>3. Base(static', obstacle.grid, L!Blank, origin, 0, L_W) = Base(static, obstacle.grid, L!Blank, origin, 0, L_W)
        BY <2>1, <3>2 DEF Base, L!StaticCosts
      <4>4. Whole' = Whole
        BY <4>2, <4>3 DEF Whole
      <4>5. L!FilterCosts(Whole, origin, 0, L_W)' = L!FilterCosts(Whole, origin, 0, L_W)
        BY <2>2, <4>4 DEF L!FilterCosts
      <4>6. Matches => Matches'
        BY <2>2, <4>4, <4>5 DEF Matches
      <4>. QED
        BY <1>2, <2>4, <4>1, <4>6
    <3>. QED
      BY <3>1, <3>2
  <2>. QED
    BY <2>2, <2>3, <2>4, UntouchedOK
<1>11. ASSUME L!ToggleObstacle PROVE LayersInv'
  <2>1. obstacle' \in ObstacleLayers /\ obstacle'.origin = obstacle.origin /\ obstacle'.grid = obstacle.grid
    BY <1>0, <1>11 DEF L!ToggleObstacle, ObstacleLayers
  <2>2. Untouched /\ ~synced'
    BY <1>0, <1>11, <2>1 DEF L!ToggleObstacle, Untouched
  <2>. QED
    BY <2>2, UntouchedOK
<1>. QED
  BY <1>3, <1>4, <1>5, <1>6, <1>7, <1>8, <1>9, <1>10, <1>11 DEF L!Next

LEMMA LayersInitOK == L!Init => LayersInv
<1>1. SUFFICES ASSUME L!Init PROVE LayersInv
  OBVIOUS
<1>2. L!Blank \in CellGrid /\ \A i \in L!Cells : L!Blank[i] # L!Lethal
  BY DEF L!Blank, CellGrid, L!Default, L!NoInfo, L!Lethal
<1>3. L!NoBounds \in Bounds /\ L!Everything \in Bounds
  BY DEF L!NoBounds, L!Everything, Bounds, L!Far
<1>4. LayersType
  <2>1. static \in [grid : CellGrid, buffer : {<<>>} \union {<<m>> : m \in L_StaticMaps},
                    received : BOOLEAN, updated : BOOLEAN, enabled : BOOLEAN]
    BY <1>1, <1>2 DEF L!Init
  <2>2. obstacle \in [grid : CellGrid, origin : Int, extra : Bounds, enabled : BOOLEAN]
        /\ inflation \in [last : Bounds, again : BOOLEAN, enabled : BOOLEAN]
    BY <1>1, <1>2, <1>3 DEF L!Init
  <2>. QED
    BY <1>1, <1>2, <2>1, <2>2 DEF L!Init, LayersType
<1>5. WindowInv
  BY <1>1, LayersAssumption DEF L!Init, WindowInv, L!Far
<1>6. MatchInv /\ KeptInv /\ L!RobotInWindow
  BY <1>1 DEF L!Init, MatchInv, KeptInv, L!RobotInWindow
<1>7. SeenInv
  BY <1>1, <1>2 DEF L!Init, SeenInv
<1>. QED
  BY <1>4, <1>5, <1>6, <1>7 DEF LayersInv

LEMMA LayersOK ==
  LayersInv /\ (L!Next \/ UNCHANGED L!vars) => LayersInv'
<1>1. ASSUME LayersInv, UNCHANGED L!vars PROVE LayersInv'
  <2>0. UNCHANGED <<cfg, origin, primary, master, static, obstacle, inflation, masked, inWindow, synced, fresh>>
    BY <1>1 DEF L!vars
  <2>1. Whole' = Whole
    BY <2>0, WholeAfter DEF Whole
  <2>2. L!FilterCosts(Whole, origin, 0, L_W)' = L!FilterCosts(Whole, origin, 0, L_W)
    BY <2>0, <2>1 DEF L!FilterCosts
  <2>3. MatchInv'
    BY <1>1, <2>0, <2>1, <2>2 DEF LayersInv, MatchInv, Matches, Pending
  <2>. QED
    BY <1>1, <2>0, <2>3 DEF LayersInv, LayersType, WindowInv, KeptInv, SeenInv, L!RobotInWindow
<1>. QED
  BY <1>1, UpdateMapOK, LayersActionsOK

(* The invariant says what the costmaps promise.                            *)
LEMMA LayersPromise ==
  ASSUME LayersInv
  PROVE  L!MasterIsComposed /\ L!RobotInWindow /\ L!LethalKept /\ L!LethalWhereSeen
<1>1. L!MasterIsComposed
  <2>1. SUFFICES ASSUME ~cfg.rolling, synced, fresh PROVE master \in L!FilteredComposed
    BY DEF L!MasterIsComposed
  <2>2. Matches
    BY <2>1 DEF LayersInv, MatchInv
  <2>3. L!Composed = {Whole}
    BY DEF L!Composed, L!Plugins, Whole, Base
  <2>4. cfg.filtered \in BOOLEAN
    BY LayersAssumption DEF LayersInv, LayersType
  <2>. QED
    BY <2>2, <2>3, <2>4 DEF Matches, L!FilteredComposed
<1>2. L!LethalKept
  BY DEF LayersInv, KeptInv, L!LethalKept
<1>3. L!LethalWhereSeen
  <2>1. ASSUME NEW i \in L!Cells, cfg.rolling, fresh, synced, master[i] = L!Lethal
        PROVE  origin + i \in (UNION L_Scans) \cup {j \in L!Cells : static.grid[j] = L!Lethal}
                                \cup (IF masked THEN {L!MaskCell} ELSE {})
    <3>1. \/ origin + i \in UNION L_Scans
          \/ masked /\ origin + i = L!MaskCell
          \/ origin + i \in L!Cells /\ static.grid[origin + i] = L!Lethal
      BY <2>1 DEF LayersInv, SeenInv
    <3> DEFINE hit == UNION L_Scans
               walls == {j \in L!Cells : static.grid[j] = L!Lethal}
               barred == IF masked THEN {L!MaskCell} ELSE {}
    <3>2. masked /\ origin + i = L!MaskCell => origin + i \in barred
      OBVIOUS
    <3>3. origin + i \in L!Cells /\ static.grid[origin + i] = L!Lethal => origin + i \in walls
      OBVIOUS
    <3>4. origin + i \in hit \/ origin + i \in walls \/ origin + i \in barred
      BY <3>1, <3>2, <3>3
    <3> HIDE DEF hit, walls, barred
    <3>5. origin + i \in hit \cup walls \cup barred
      BY <3>4
    <3>. QED
      BY <3>5 DEF hit, walls, barred
  <2>. QED
    BY <2>1 DEF LayersInv, SeenInv, L!LethalWhereSeen
<1>. QED
  BY <1>1, <1>2, <1>3 DEF LayersInv

-----------------------------------------------------------------------------
(* The other machines never become one of these.                            *)
LEMMA ObstacleRuns ==
  /\ Init => (which = "obstacle" => OInv)
  /\ (which = "obstacle" => OInv) /\ [Next]_all =>
       /\ (which = "obstacle" => OInv)'
       /\ which = "obstacle" => O!OnlyFreshReadStep /\ O!FreshKeptStep /\ O!SilenceHasCauseStep
<1>1. Init => (which = "obstacle" => OInv)
  BY SourcesInitOK DEF Init, ObstacleInit, DecayInit, RangeInit, VoxelInit, LayersInit
<1>2. ASSUME [Next]_all, which = "obstacle" \/ which' = "obstacle"
      PROVE  which = "obstacle" /\ (O!Next \/ UNCHANGED O!vars)
  <2>1. CASE UNCHANGED all
    BY <1>2, <2>1 DEF all, shared, obstacleOnly, O!vars
  <2>2. CASE Next
    BY <1>2, <2>2 DEF Next, ObstacleStep, DecayStep, RangeStep, VoxelStep, LayersStep
  <2>. QED
    BY <1>2, <2>1, <2>2
<1>. QED
  BY <1>1, <1>2, SourcesOK

LEMMA DecayRuns ==
  /\ Init => (which = "decay" => DInv)
  /\ (which = "decay" => DInv) /\ [Next]_all =>
       (which = "decay" => DInv)' /\ (which = "decay" => D!SilenceHasCauseStep)
<1>1. Init => (which = "decay" => DInv)
  BY DecayInitOK DEF Init, ObstacleInit, DecayInit, RangeInit, VoxelInit, LayersInit
<1>2. ASSUME [Next]_all, which = "decay" \/ which' = "decay"
      PROVE  which = "decay" /\ (D!Next \/ UNCHANGED D!vars)
  <2>1. CASE UNCHANGED all
    BY <1>2, <2>1 DEF all, shared, decayOnly, D!vars
  <2>2. CASE Next
    BY <1>2, <2>2 DEF Next, ObstacleStep, DecayStep, RangeStep, VoxelStep, LayersStep
  <2>. QED
    BY <1>2, <2>1, <2>2
<1>. QED
  BY <1>1, <1>2, DecayOK

LEMMA RangeRuns ==
  /\ Init => (which = "range" => RInv)
  /\ (which = "range" => RInv) /\ [Next]_all => (which = "range" => RInv)'
<1>1. Init => (which = "range" => RInv)
  BY RangeInitOK DEF Init, ObstacleInit, DecayInit, RangeInit, VoxelInit, LayersInit
<1>2. ASSUME [Next]_all, which = "range" \/ which' = "range"
      PROVE  which = "range" /\ (R!Next \/ UNCHANGED R!vars)
  <2>1. CASE UNCHANGED all
    BY <1>2, <2>1 DEF all, shared, rangeOnly, R!vars
  <2>2. CASE Next
    BY <1>2, <2>2 DEF Next, ObstacleStep, DecayStep, RangeStep, VoxelStep, LayersStep
  <2>. QED
    BY <1>2, <2>1, <2>2
<1>. QED
  BY <1>1, <1>2, RangeOK

LEMMA VoxelRuns ==
  /\ Init => (which = "voxel" => VInv)
  /\ (which = "voxel" => VInv) /\ [Next]_all => (which = "voxel" => VInv)'
<1>1. Init => (which = "voxel" => VInv)
  BY VoxelInitOK DEF Init, ObstacleInit, DecayInit, RangeInit, VoxelInit, LayersInit
<1>2. ASSUME [Next]_all, which = "voxel" \/ which' = "voxel"
      PROVE  which = "voxel" /\ (V!Next \/ UNCHANGED V!vars)
  <2>1. CASE UNCHANGED all
    BY <1>2, <2>1 DEF all, shared, voxelOnly, V!vars, V!params, V!flags
  <2>2. CASE Next
    BY <1>2, <2>2 DEF Next, ObstacleStep, DecayStep, RangeStep, VoxelStep, LayersStep
  <2>. QED
    BY <1>2, <2>1, <2>2
<1>. QED
  BY <1>1, <1>2, VoxelOK

LEMMA LayersRuns ==
  /\ Init => (which = "layers" => LayersInv)
  /\ (which = "layers" => LayersInv) /\ [Next]_all => (which = "layers" => LayersInv)'
<1>1. Init => (which = "layers" => LayersInv)
  BY LayersInitOK DEF Init, ObstacleInit, DecayInit, RangeInit, VoxelInit, LayersInit
<1>2. ASSUME [Next]_all, which = "layers" \/ which' = "layers"
      PROVE  which = "layers" /\ (L!Next \/ UNCHANGED L!vars)
  <2>1. CASE UNCHANGED all
    BY <1>2, <2>1 DEF all, shared, layersOnly, L!vars
  <2>2. CASE Next
    BY <1>2, <2>2 DEF Next, ObstacleStep, DecayStep, RangeStep, VoxelStep, LayersStep
  <2>. QED
    BY <1>2, <2>1, <2>2
<1>. QED
  BY <1>1, <1>2, LayersOK

(* No obstacle of the voxel decay layer outlives the decay of its marks,    *)
(* every one is in the master grid, and one is left behind there only when  *)
(* its voxels were reset unswept or became too few for a mark threshold     *)
(* raised at run time (spatio_temporal_voxel_grid.cpp:141,                  *)
(* spatio_temporal_voxel_layer.cpp:713, 943).                               *)
THEOREM ObstaclesDecayHolds == Spec => []ObstaclesDecay
<1>1. (which = "decay" => DInv) => ObstaclesDecay
  BY DEF DInv, Recent, Bounded, Taken, ObstaclesDecay, D!LethalIsRecent, D!NoGhosts, D!MasterHasLethal
<1>. QED
  BY <1>1, DecayRuns, PTL DEF Spec

(* What the obstacle layer reads is fresh, no fresh reading is dropped      *)
(* while the clouds come in order, and neither layer is out of date but for *)
(* a silence, or, in the decay layer, for a source that only clears, which  *)
(* is taken for silent even when it is heard (observation_buffer.cpp:187,   *)
(* obstacle_layer.cpp:836, measurement_buffer.cpp:135,                      *)
(* spatio_temporal_voxel_layer.cpp:556).                                    *)
THEOREM SensorsAreHeardHolds == Spec => SensorsAreHeard
  BY ObstacleRuns, DecayRuns, PTL DEF Spec, SensorsAreHeard

(* No sequence of readings drives the range sensor's cells to certainty,    *)
(* and the object of the last reading is in the master; the cost of a voxel *)
(* column never says anything but what the column does, except that it is   *)
(* unknown where an obstacle was cleared with its region and no point seen  *)
(* since, and what was seen to be free at all its heights is free if it was *)
(* not so cleared (range_sensor_layer.cpp:416, voxel_layer.cpp:248,         *)
(* costmap_layer.cpp:64).                                                   *)
THEOREM CostsFollowReadingsHolds == Spec => []CostsFollowReadings
<1>1. (which = "range" => RInv) => (which = "range" => R!NeverCertain /\ R!LastObjectMarked)
  BY Zenon DEF RInv, RType, ObjectBelieved, Beliefs, R!NeverCertain, R!LastObjectMarked
<1>2. (which = "voxel" => VInv) => (which = "voxel" => V!CostFollowsColumn /\ V!KnownFreeIsFree)
  <2>1. SUFFICES ASSUME VInv PROVE V!CostFollowsColumn /\ V!KnownFreeIsFree
    OBVIOUS
  <2>2. \A c \in V!Cells \ stale : Agrees(columns[c], costs[c]) \/ (c \in wiped /\ costs[c] = "unknown")
    BY <2>1 DEF VInv, GoodMap
  <2>3. ASSUME NEW c \in V!Cells \ stale
        PROVE  /\ costs[c] = "lethal" => V!Says(c) = "marked"
               /\ costs[c] = "free" => V!Says(c) = "free"
               /\ V!Says(c) = "marked" => costs[c] = "lethal" \/ (c \in wiped /\ costs[c] = "unknown")
    <3>1. CASE Agrees(columns[c], costs[c])
      BY <3>1 DEF Agrees, V!GetVoxelColumn, V!Says
    <3>2. CASE c \in wiped /\ costs[c] = "unknown"
      BY <3>2
    <3>. QED
      BY <2>2, <3>1, <3>2
  <2>4. ASSUME unknownThreshold = asked + (V_Bits - sizeZ), NEW c \in V!Cells \ (stale \cup wiped),
               \A z \in 0..sizeZ - 1 : V!GetVoxel(columns[c], z) = "free"
        PROVE  costs[c] = "free"
    <3>1. \A z \in 0..sizeZ - 1 : z \notin columns[c].hi /\ z \notin columns[c].lo
      BY <2>4 DEF V!GetVoxel
    <3>. QED
      BY <2>2, <2>4, <3>1 DEF Agrees, KnownFree
  <2>. QED
    BY <2>3, <2>4 DEF V!CostFollowsColumn, V!KnownFreeIsFree
<1>. QED
  BY <1>1, <1>2, RangeRuns, VoxelRuns, PTL DEF Spec, CostsFollowReadings

(* Updating only the cells between the bounds of the layers gives the       *)
(* master grid that updating all would, a rolling window keeps the robot    *)
(* inside, and obstacles neither move nor get lost on their way             *)
(* (layered_costmap.cpp:129, costmap_layer.cpp:96, costmap_2d.cpp:336).     *)
THEOREM ObstaclesReachMasterHolds == Spec => []ObstaclesReachMaster
<1>1. (which = "layers" => LayersInv) => ObstaclesReachMaster
  BY LayersPromise DEF ObstaclesReachMaster
<1>. QED
  BY <1>1, LayersRuns, PTL DEF Spec
=============================================================================
