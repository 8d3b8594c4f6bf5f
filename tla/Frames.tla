------------------------------- MODULE Frames -------------------------------
(***************************************************************************)
(* What the collector does with one WebSocket frame: the dispatch and the  *)
(* handlers of app/collector/client.py, with the persist methods of        *)
(* app/storage/influxdb.py behind them, up to the heartbeat.  Frames are   *)
(* handled one at a time by the reader.  A step runs from one await to the *)
(* next; the awaits that really wait are the writes.  Names and events of  *)
(* the timeline are modelled in TimelineEvents, the queue in              *)
(* CollectorTasks: here an item is handed to the storage and its detail    *)
(* fetch is offered to the queue.                                          *)
(*                                                                         *)
(* A frame is a record: its type, the shape of its payload, its mains      *)
(* values, the points of its legs, and its items; an item has a kind and   *)
(* the values of its point.                                                *)
(***************************************************************************)
EXTENDS Heartbeat, PointFields, SequencesExt

CONSTANTS
    NoFrame,
    FrameSet,       \* the frames that Sense sends
    Details,        \* points of REST answers that the API workers write meanwhile
    WriteTimeout    \* config.INFLUXDB_TIMEOUT: how long a write may take

\* Legs, items and details have points as the code makes them; that float() raises for
\* the current of the mains is found out when a frame is prepared.
ASSUME FramesAssumption ==
    /\ NoFrame \notin FrameSet
    /\ WriteTimeout \in Nat
    /\ \A point \in Details : IsPoint(point)
    /\ \A f \in FrameSet :
          /\ f.items \in Seq(ToSet(f.items)) /\ f.legs \in Seq(ToSet(f.legs))
          /\ \A i \in DOMAIN f.items : f.items[i].kind = "good" => IsPoint(f.items[i].point)
          /\ \A i \in DOMAIN f.legs : IsPoint(f.legs[i])
          /\ ~FloatRaises(f.mains["current"]) => IsPoint(f.mains)

VARIABLES
    frame,    \* the frame that the reader handles
    writing,  \* it awaits a write
    at,       \* the item whose write it awaits (not for a realtime frame)
    handed,   \* the items whose points were handed to the storage
    offered,  \* the items whose detail fetch was offered to the queue
    missed,   \* history: of the latest frame, the handed items never offered
    ended,    \* history: how the latest frame ended ("no" while one is handled)
    cut,      \* history: the latest usable reading was cut off before its touch
    shard     \* the InfluxDB shard that takes the present writes

reading == <<frame, writing, at, handed, offered, missed, ended>>
vars == <<maxAge, interval, garbled, fileAge, beatAge, failed, stepped, heard,
          frame, writing, at, handed, offered, missed, ended, cut, shard>>

Init ==
    /\ HeartbeatInit
    /\ frame = NoFrame /\ writing = FALSE /\ at = 0
    /\ handed = {} /\ offered = {} /\ missed = {}
    /\ ended = "handled"
    /\ cut = FALSE
    /\ shard = EmptyShard

-----------------------------------------------------------------------------
(* Realtime frames *)

Realtime(f) == f.type = "realtime_update"

\* The keys are there, the lists are lists, and the epoch is a time.
WellShaped(f) == f.shape = "object"

\* float(c) raises, or an id that no dictionary can hold is looked up: the whole
\* frame is lost.
PreparationRaises(f) ==
    \/ FloatRaises(f.mains["current"])
    \/ \E i \in DOMAIN f.items : f.items[i].kind = "unhashable_id"

Usable(f) ==
    /\ Realtime(f) /\ WellShaped(f) /\ ~PreparationRaises(f)
    /\ UsableMains(f.mains)

UsableInHand == frame # NoFrame /\ Usable(frame)

Good(f) == {i \in DOMAIN f.items : f.items[i].kind = "good"}

\* The points of the devices of the frame; an item that is skipped adds nothing.
DevicePoints(f) == [i \in DOMAIN f.items |-> IF i \in Good(f) THEN f.items[i].point ELSE <<>>]

\* The shard after the batch of the frame: mains, legs, devices.
RealtimeStored(f, s) == StoredAll(DevicePoints(f), StoredAll(f.legs, Stored(f.mains, s)))

\* The reader is done with the frame, after offering the items in `asked`.
FrameEnds(how, asked) ==
    /\ frame' = NoFrame
    /\ writing' = FALSE
    /\ at' = 0
    /\ handed' = {} /\ offered' = {}
    /\ missed' = handed \ asked
    /\ ended' = how

HandleRealtime ==
    /\ frame # NoFrame /\ ~writing
    /\ Realtime(frame)
    /\ IF WellShaped(frame) /\ ~PreparationRaises(frame)
       THEN /\ writing' = TRUE
            /\ handed' = Good(frame)
            /\ UNCHANGED <<frame, at, offered, missed, ended>>
       ELSE FrameEnds("handled", offered)
    /\ UNCHANGED <<settings, ages, failed, stepped, cut, shard>>

\* Faulty: every handled frame is touched for.
TouchesForAny(f) == Realtime(f)

\* `if handled`: only a usable reading touches the heartbeat.
Touches(f) == Usable(f)

\* The write returns, whether InfluxDB took the batch or not.
RealtimeWritten ==
    /\ writing /\ Realtime(frame)
    /\ FrameEnds("handled", offered)
    /\ IF Touches(frame) THEN TouchHeartbeat ELSE UNCHANGED heartbeat
    /\ shard' \in {shard, RealtimeStored(frame, shard)}
    /\ UNCHANGED <<settings, heard, cut>>

-----------------------------------------------------------------------------
(* Frames with a list of items, and frames that are one item *)

Timeline(f) == f.type = "new_timeline_event"
States(f) == f.type \in {"device_states", "device_states_changed"}

\* Faulty: a state that is no object raises, as a timeline item does.
RaisesAtAny(f, i) == f.items[i].kind = "not_object"

\* item.get of something that is no object: handle_timeline_event does not ask.
RaisesAt(f, i) == Timeline(f) /\ f.items[i].kind = "not_object"

\* The first item from n on that is written or raises; the others are skipped.
NextItem(f, n) ==
    LET some == {i \in n..Len(f.items) : i \in Good(f) \/ RaisesAt(f, i)}
    IN  IF some = {} THEN Len(f.items) + 1 ELSE CHOOSE i \in some : \A j \in some : i <= j

\* Go on with item i: a state's detail fetch is offered before its write.
GoOn(i, asked) ==
    IF i > Len(frame.items) \/ (i \in DOMAIN frame.items /\ RaisesAt(frame, i))
    THEN FrameEnds("handled", asked)
    ELSE /\ writing' = TRUE
         /\ at' = i
         /\ handed' = handed \cup {i}
         /\ offered' = IF States(frame) THEN asked \cup {i} ELSE asked
         /\ UNCHANGED <<frame, missed, ended>>

HandleItems ==
    /\ frame # NoFrame /\ ~writing
    /\ ~Realtime(frame)
    /\ IF WellShaped(frame) THEN GoOn(NextItem(frame, 1), offered)
       ELSE FrameEnds("handled", offered)
    /\ UNCHANGED <<settings, ages, failed, stepped, cut, shard>>

\* Faulty: no detail is fetched for an event.
AskedAfterEventNot(i) == offered

\* A timeline event's detail fetch is offered after its write.
AskedAfterWrite(i) == IF Timeline(frame) THEN offered \cup {i} ELSE offered

ItemWritten ==
    /\ writing /\ ~Realtime(frame)
    /\ GoOn(NextItem(frame, at + 1), AskedAfterWrite(at))
    /\ shard' \in {shard, Stored(frame.items[at].point, shard)}
    /\ UNCHANGED <<settings, ages, failed, stepped, cut>>

-----------------------------------------------------------------------------
\* The next frame is there: the reader's recv() will return it.
FrameArrives ==
    /\ frame = NoFrame
    /\ frame' \in FrameSet
    /\ missed' = {}
    /\ ended' = "no"
    /\ IF Usable(frame')
       THEN heard' = 0 /\ cut' = FALSE
       ELSE UNCHANGED <<heard, cut>>
    /\ UNCHANGED <<settings, fileAge, beatAge, failed, stepped, writing, at, handed, offered,
                   shard>>

\* Faulty: the cancelled reader still counts as writing.
FrameCutInPart ==
    /\ frame # NoFrame
    /\ frame' = NoFrame /\ at' = 0
    /\ handed' = {} /\ offered' = {} /\ missed' = handed \ offered
    /\ ended' = "cut"
    /\ cut' = (cut \/ UsableInHand)
    /\ UNCHANGED <<settings, ages, failed, stepped, writing, shard>>

\* The monitor, a reconnection or a shutdown cancels the reader, in its write
\* or before it has begun.
FrameCut ==
    /\ frame # NoFrame
    /\ FrameEnds("cut", offered)
    /\ cut' = (cut \/ UsableInHand)
    /\ UNCHANGED <<settings, ages, failed, stepped, shard>>

\* An API worker or a periodic task writes a REST answer.
DetailWritten ==
    /\ \E point \in Details : shard' = Stored(point, shard)
    /\ UNCHANGED <<settings, ages, failed, stepped, reading, cut>>

\* InfluxDB opens the next shard: its fields have no types yet.
ShardRolls ==
    /\ shard' = EmptyShard
    /\ UNCHANGED <<settings, ages, failed, stepped, reading, cut>>

\* The process ends with whatever it does.
Restart ==
    /\ ProcessRestarts
    /\ FrameEnds(IF frame = NoFrame THEN ended ELSE "cut", offered)
    /\ cut' = (cut \/ UsableInHand)
    /\ UNCHANGED shard

\* The one write of a reading ends within the timeout of its HTTP request, which runs on
\* the monotonic clock.  The monitor may cut it off sooner (FrameCut), at no fixed time: it
\* looks now and then, and by the wall clock.
Tick ==
    /\ UsableInHand => heard < WriteTimeout
    /\ TimePasses
    /\ UNCHANGED <<reading, cut, shard>>

Clock ==
    /\ ClockStepped
    /\ UNCHANGED <<reading, cut, shard>>

Next ==
    \/ FrameArrives \/ FrameCut
    \/ HandleRealtime \/ RealtimeWritten \/ HandleItems \/ ItemWritten
    \/ DetailWritten \/ ShardRolls \/ Restart \/ Tick \/ Clock

Spec == Init /\ [][Next]_vars

-----------------------------------------------------------------------------
(* Properties *)

\* The reader, the heartbeat and the shard are in one of their states.
TypeOK ==
    /\ maxAge \in MaxAgeLow..MaxAgeHigh /\ interval \in Nat \ {0} /\ garbled \in BOOLEAN
    /\ fileAge \in -MaxStep..Stale /\ beatAge \in -MaxStep..Stale /\ heard \in 0..Stale
    /\ failed \in BOOLEAN /\ stepped \in {-MaxStep, 0, MaxStep}
    /\ frame \in FrameSet \cup {NoFrame}
    /\ writing => frame # NoFrame
    /\ at \in Nat /\ (at > 0 => at \in handed)
    /\ IF frame = NoFrame THEN ended \in {"handled", "cut"} ELSE ended = "no"
    /\ offered \subseteq handed
    /\ cut \in BOOLEAN
    /\ shard.type \in [Watched -> Types \cup {"none"}]
    /\ shard.fouled \subseteq Watched /\ shard.refused \subseteq Watched

\* The docstring of process_websocket_data: a feed without usable mains readings shows
\* as unhealthy, whatever other frames come.  A healthy answer tells of a reading that
\* came within the max age, plus the time a write may take, plus a step back of the clock
\* since the touch.
HealthyMeansUsable == Healthy => heard <= maxAge - stepped + WriteTimeout

\* The comment at config.HEALTH_CHECK_MAX_AGE: a collector that receives data does not
\* flap unhealthy.  A usable reading in the last half window keeps it healthy across
\* restarts and throttling; the exceptions are a touch that failed, an interval that is
\* no number, a clock set forward, and a write so slow that the reader was cancelled.
ReceivingStaysHealthy ==
    (/\ frame = NoFrame /\ heard <= maxAge - maxAge \div 2
     /\ ~failed /\ ~garbled /\ stepped <= 0 /\ ~cut) => Healthy

\* The comments in persist_realtime_data and _persist_device_states: an item that is no
\* object is skipped alone.  A good item of a frame that was handled to its end is lost
\* only where the code does not keep to that: a realtime frame that cannot be prepared,
\* and what follows a non-object in a timeline frame.
BadItemCostsItself ==
    [][(frame # NoFrame /\ ended' = "handled") =>
          \A i \in Good(frame) \ handed :
             \/ ~WellShaped(frame)
             \/ Realtime(frame) /\ PreparationRaises(frame)
             \/ Timeline(frame) /\ \E j \in 1..i : frame.items[j].kind = "not_object"]_vars

\* Every event and state that is written gets its detail fetched, on which the name of a
\* parked event depends: only a cancellation in the write of an event comes between.
WrittenItemsAreLookedUp ==
    [][(frame # NoFrame /\ frame' = NoFrame /\ (Timeline(frame) \/ States(frame))) =>
          missed' \subseteq IF ended' = "cut" THEN {at} ELSE {}]_vars

\* The docstring of _num: a field's type never depends on spelling.  InfluxDB refuses a
\* number for its type only where an improper value came first in the shard, and never
\* for a field that is parsed; REST usage is written as it comes, and is excepted.
NumbersKeepTheirField ==
    /\ shard.refused \cap (FloatFields \cup ParsedFields) = {}
    /\ shard.refused \cap (NumFields \cup WholeFields) \subseteq shard.fouled
=============================================================================
