--------------------------- MODULE CostmapFilters ---------------------------
(***************************************************************************)
(* The three costmap filters: keepout, speed and binary.  A filter first   *)
(* subscribes to a topic that says which mask it shall use and how to read *)
(* it, then to the mask.  Both topics are latched: whoever subscribes gets *)
(* the last message.  The map update thread calls process() for the cell   *)
(* the robot is in.                                                        *)
(***************************************************************************)
EXTENDS Integers

CONSTANTS Infos,      \* kind -> filter infos: [mask, type, base, multiplier]
          MaskData,   \* mask -> cell -> -1 or 0..100; no cell: outside
          Cells,      \* where the robot can be
          None,
          MaxChanges  \* bound on the changes of the world

VARIABLES kind,       \* "keepout", "speed" or "binary"
          life,       \* "inactive" or "active"
          offered,    \* the last message on the info topic
          infoSub,    \* "none", "waiting", "served"
          reading,    \* base_ and multiplier_
          percentage, \* percentage_
          maskSub,    \* the mask topic subscribed to
          maskDue,    \* its message has not arrived yet
          mask,       \* filter_mask_ (mask_costmap_)
          pub,        \* the publisher exists
          limit,      \* speed_limit_ (binary_state_)
          prev,       \* speed_limit_prev_
          sent,       \* the last message published: [limit, percentage]
          known,      \* history: the number it had when the last info came
          enabled,    \* enabled_
          isCurrent,  \* current_
          cell,       \* where the robot is
          crashed,    \* a publisher that does not exist was used
          changes

vars == <<kind, life, offered, infoSub, reading, percentage, maskSub, maskDue, mask, pub,
          limit, prev, sent, known, enabled, isCurrent, cell, crashed, changes>>
conversion == <<reading, percentage>>
subs == <<infoSub, conversion, maskSub, maskDue, mask, known>>
output == <<pub, limit, prev, sent>>
world == <<offered, cell, enabled, changes>>

NoLimit == 0   \* NO_SPEED_LIMIT, and the binary filter's default_state_
Flipped == 1
FlipThreshold == 50
DefaultReading == [base |-> 0, multiplier |-> 1]
Message(number, percent) == [limit |-> number, percentage |-> percent]

Init ==
  /\ kind \in {"keepout", "speed", "binary"}
  /\ life = "inactive" /\ offered = None
  /\ infoSub = "none" /\ reading = DefaultReading /\ percentage = FALSE /\ maskSub = None /\ maskDue = FALSE
  /\ mask = None /\ pub = FALSE
  /\ limit = NoLimit /\ prev = NoLimit /\ sent = Message(NoLimit, FALSE) /\ known = NoLimit
  /\ enabled = TRUE /\ isCurrent = TRUE /\ cell \in Cells
  /\ crashed = FALSE /\ changes = 0

-----------------------------------------------------------------------------
(* The world: infos are published, the robot moves, the service is called. *)

Change == changes < MaxChanges /\ changes' = changes + 1

PublishInfo(i) ==
  /\ Change /\ offered' = i
  /\ infoSub' = IF infoSub = "none" THEN "none" ELSE "waiting"
  /\ UNCHANGED <<kind, life, conversion, maskSub, maskDue, mask, output, known, enabled, isCurrent,
                 cell, crashed>>

Move(c) ==
  /\ Change /\ cell' = c
  /\ UNCHANGED <<kind, life, offered, subs, output, enabled, isCurrent, crashed>>

(* enableCallback(): what was published stays in force. *)
Enable ==
  /\ Change /\ enabled' = ~enabled
  /\ UNCHANGED <<kind, life, offered, subs, output, isCurrent, cell, crashed>>

-----------------------------------------------------------------------------
(* The filter. *)

(* BinaryFilter::changeState() publishes, whether there is a publisher or not. *)
ChangeState(v, hasPub) ==
  /\ limit' = v
  /\ crashed' = ~hasPub
  /\ sent' = IF hasPub THEN Message(v, FALSE) ELSE sent
  /\ UNCHANGED prev

Publishes == kind # "keepout"

Subscribe == infoSub' = "waiting" /\ UNCHANGED mask

InitializeKeepout ==
  /\ Subscribe
  /\ UNCHANGED <<pub, conversion, limit, prev, sent, crashed>>

InitializeSpeed ==
  /\ Subscribe
  /\ pub' = TRUE /\ reading' = DefaultReading /\ percentage' = FALSE
  /\ UNCHANGED <<limit, prev, sent, crashed>>

InitializeBinary ==
  /\ Subscribe
  /\ pub' = TRUE /\ reading' = DefaultReading /\ UNCHANGED percentage
  /\ ChangeState(NoLimit, TRUE)

InitializeFilter ==
  \/ kind = "keepout" /\ InitializeKeepout
  \/ kind = "speed" /\ InitializeSpeed
  \/ kind = "binary" /\ InitializeBinary

Activate ==
  /\ life = "inactive" /\ Change
  /\ life' = "active"
  /\ InitializeFilter
  /\ UNCHANGED <<kind, offered, maskSub, maskDue, known, enabled, isCurrent, cell>>

Unsubscribe == infoSub' = "none" /\ maskSub' = None /\ maskDue' = FALSE

ResetKeepout == Unsubscribe /\ UNCHANGED <<output, crashed>>

ResetSpeed == Unsubscribe /\ pub' = FALSE /\ UNCHANGED <<limit, prev, sent, crashed>>

ResetBinary == Unsubscribe /\ pub' = FALSE /\ ChangeState(NoLimit, pub)

(* resetFilter(); the mask stays *)
ResetFilter ==
  \/ kind = "keepout" /\ ResetKeepout
  \/ kind = "speed" /\ ResetSpeed
  \/ kind = "binary" /\ ResetBinary

Deactivate ==
  /\ life = "active" /\ Change
  /\ life' = "inactive"
  /\ ResetFilter
  /\ UNCHANGED <<kind, offered, conversion, mask, known, enabled, isCurrent, cell>>

(* The service that clears the costmap is there before the layers are *)
(* activated and after they are deactivated.                          *)
Reset ==
  /\ Change
  /\ infoSub' = "waiting" /\ maskSub' = None /\ maskDue' = FALSE
  /\ IF Publishes THEN pub' = TRUE /\ reading' = DefaultReading ELSE UNCHANGED <<pub, reading>>
  /\ percentage' = FALSE
  /\ isCurrent' = FALSE
  /\ IF kind = "binary" THEN ChangeState(NoLimit, pub)
     ELSE UNCHANGED <<limit, prev, sent, crashed>>
  /\ UNCHANGED <<kind, life, offered, mask, known, enabled, cell>>

KeepoutInfo(i) == maskSub' = i.mask /\ UNCHANGED conversion

ReadingOf(i) == [base |-> i.base, multiplier |-> i.multiplier]

\* A type that is not supported leaves the filter with the old mask, the old
\* unit and the new base and multiplier.
SpeedInfo(i) ==
  /\ reading' = ReadingOf(i)
  /\ \/ i.type = "percent" /\ percentage' = TRUE /\ maskSub' = i.mask
     \/ i.type = "absolute" /\ percentage' = FALSE /\ maskSub' = i.mask
     \/ i.type \notin {"percent", "absolute"} /\ UNCHANGED percentage /\ maskSub' = None

BinaryInfo(i) ==
  /\ UNCHANGED percentage
  /\ IF i.type = "binary" THEN reading' = ReadingOf(i) /\ maskSub' = i.mask
     ELSE maskSub' = None /\ UNCHANGED reading

FilterInfoOnce ==  \* faulty: a second info does not replace the subscription
  /\ infoSub = "waiting" /\ offered # None
  /\ infoSub' = "served"
  /\ \/ maskSub # None /\ UNCHANGED <<conversion, maskSub>>
     \/ maskSub = None /\ kind = "keepout" /\ KeepoutInfo(offered)
     \/ maskSub = None /\ kind = "speed" /\ SpeedInfo(offered)
     \/ maskSub = None /\ kind = "binary" /\ BinaryInfo(offered)
  /\ maskDue' = (maskSub' # None) /\ known' = sent.limit
  /\ UNCHANGED <<kind, life, mask, output, world, isCurrent, crashed>>

FilterInfoCallback ==
  /\ infoSub = "waiting" /\ offered # None
  /\ infoSub' = "served"
  /\ \/ kind = "keepout" /\ KeepoutInfo(offered)
     \/ kind = "speed" /\ SpeedInfo(offered)
     \/ kind = "binary" /\ BinaryInfo(offered)
  /\ maskDue' = (maskSub' # None) /\ known' = sent.limit
  /\ UNCHANGED <<kind, life, mask, output, world, isCurrent, crashed>>

MaskCallback ==
  /\ maskDue
  /\ mask' = maskSub /\ maskDue' = FALSE
  /\ UNCHANGED <<kind, life, infoSub, conversion, maskSub, output, known, world, isCurrent, crashed>>

Outside == cell \notin DOMAIN MaskData[mask]

Converted(r, data) == data * r.multiplier + r.base

\* A limit that is out of bounds is none.
LimitOf(r, percent, data) ==
  LET l == Converted(r, data)
  IN IF data = 0 \/ l < 0 \/ (percent /\ l > 100) THEN NoLimit ELSE l

\* A message only when the number is another: the unit does not count.
ProcessSpeed ==
  IF Outside \/ MaskData[mask][cell] = -1 THEN UNCHANGED <<limit, prev, sent, crashed>>
  ELSE /\ limit' = LimitOf(reading, percentage, MaskData[mask][cell])
       /\ IF limit' = prev THEN UNCHANGED <<prev, sent, crashed>>
          ELSE /\ prev' = limit'
               /\ crashed' = ~pub
               /\ sent' = IF pub THEN Message(limit', percentage) ELSE sent

StateOf(r, data) == IF Converted(r, data) > FlipThreshold THEN Flipped ELSE NoLimit

ProcessBinary ==
  LET data == MaskData[mask][cell]
  IN IF Outside THEN ChangeState(NoLimit, pub)
     ELSE IF data = -1 \/ StateOf(reading, data) = limit THEN UNCHANGED <<limit, prev, sent, crashed>>
     ELSE ChangeState(StateOf(reading, data), pub)

(* The map update thread, which may still be in its last update when the *)
(* filters are deactivated.                                              *)
Process ==
  /\ enabled
  /\ isCurrent' = TRUE
  /\ IF mask = None \/ kind = "keepout" THEN UNCHANGED <<limit, prev, sent, crashed>>
     ELSE IF kind = "speed" THEN ProcessSpeed ELSE ProcessBinary
  /\ UNCHANGED <<kind, life, subs, pub, world>>

(* transformPose() fails: the update passes without a decision *)
ProcessFails ==
  /\ enabled /\ mask # None /\ Change
  /\ isCurrent' = TRUE
  /\ UNCHANGED <<kind, life, offered, subs, output, enabled, cell, crashed>>

Next ==
  /\ ~crashed
  /\ \/ \E i \in Infos[kind] : PublishInfo(i)
     \/ \E c \in Cells : Move(c)
     \/ Enable \/ Activate \/ Deactivate \/ Reset
     \/ FilterInfoCallback \/ MaskCallback \/ Process \/ ProcessFails

Spec == Init /\ [][Next]_vars

Fairness == WF_vars(FilterInfoCallback) /\ WF_vars(MaskCallback) /\ WF_vars(Process)

-----------------------------------------------------------------------------
(* Only two things use a publisher that is not there: an update under way   *)
(* while the filter is deactivated, and a clearing of a costmap that is     *)
(* inactive, which is enough for the binary filter.                         *)
CrashesOnlyInactive == crashed => life = "inactive" /\ kind # "keepout"

InPercent(i) == kind = "speed" /\ i.type = "percent"

Wanted(i) ==
  LET data == MaskData[i.mask][cell]
  IN IF kind = "binary" THEN StateOf(ReadingOf(i), data) ELSE LimitOf(ReadingOf(i), InPercent(i), data)

Supported(i) == i.type \in IF kind = "binary" THEN {"binary"} ELSE {"percent", "absolute"}

Decided == offered # None /\ Supported(offered) /\ cell \in DOMAIN MaskData[offered.mask]
             /\ MaskData[offered.mask][cell] # -1

(* When the changes have ended, the last limit published is the one of the  *)
(* last info, of its own mask and of the cell the robot is in: whatever the *)
(* order in which infos and masks arrived, none is read with the other's.   *)
(* Its unit is the info's too, unless the number was already the right one  *)
(* when the info came: then a limit in percent goes on being taken for one  *)
(* in metres per second, or the other way round (speed_filter.cpp:243).     *)
Settled ==
  changes = MaxChanges /\ life = "active" /\ enabled /\ Publishes /\ Decided =>
    \/ crashed
    \/ /\ sent.limit = Wanted(offered)
       /\ sent.percentage = InPercent(offered) \/ known = sent.limit
=============================================================================
