---------------------------- MODULE TimelineEvents ----------------------------
(***************************************************************************)
(* Timeline events and the names of their devices: handle_timeline_event   *)
(* and fetch_device_data of app/collector/client.py with the timeline      *)
(* queue of app/storage/influxdb.py.  An event of a device without a name  *)
(* is parked; the fetch of the device's detail, asked for by each event,   *)
(* releases it under the name that came.  timeline_queue_lock is an        *)
(* asyncio.Lock: first come, first served.  A step runs from one await     *)
(* that suspends to the next; a write is two steps.                        *)
(***************************************************************************)
EXTENDS Integers, Sequences, FiniteSets, SequencesExt

CONSTANTS
    Devices,      \* device ids
    Events,       \* timeline items that may come
    DeviceOf,     \* the device of each
    Nameless,     \* the devices whose detail carries no name
    Odd,          \* the devices whose id is no string: no point is made of a parked event
    Workers,      \* the API workers
    Feed,         \* the reader of the WebSocket
    Closer,       \* main(), in close() of the storage
    Nobody,       \* "the lock is free"
    MaxDevices,   \* config.DEVICE_CACHE_MAX_SIZE
    MaxParked,    \* config.QUEUE_BATCH_SIZE
    QueueSize     \* config.QUEUE_SIZE_API

ASSUME TimelineAssumption ==
    /\ IsFiniteSet(Devices) /\ IsFiniteSet(Events)
    /\ DeviceOf \in [Events -> Devices] /\ Nameless \subseteq Devices /\ Odd \subseteq Devices
    /\ Feed \notin Workers /\ Closer \notin Workers \cup {Feed}
    /\ Nobody \notin Workers \cup {Feed, Closer}
    /\ MaxDevices \in Nat \ {0} /\ MaxParked \in Nat \ {0} /\ QueueSize \in Nat \ {0}

VARIABLES
    \* --- the collector ---
    feed,        \* where the handler of the feed awaits
    inHand,      \* the event it handles (a set of one, or none)
    details,     \* the devices with an unexpired entry in device_cache
    fetchQueue,  \* api_call_queue
    pc,          \* where each worker awaits
    target,      \* the device it fetches
    stopping,    \* is_shutting_down of the collector, its feed cancelled
    \* --- the storage ---
    names,       \* the keys of device_name_cache, oldest first
    parkOrder,   \* the keys of timeline_event_queue, oldest first
    parked,      \* the events of each
    lock,        \* the worker that holds timeline_queue_lock
    waiters,     \* those that wait for it, in order
    flushing,    \* the events that close() is writing
    closing,     \* where close() is, from the write of the remaining readings on
    \* --- histories ---
    arrived,     \* the events that have come
    handed,      \* how often the write of an event was completed, well or not
    dropped,     \* the events that a full timeline queue has dropped
    aborted,     \* the events in hand when the reader was cancelled
    forgotten    \* the devices whose name the name cache has ever evicted

collector == <<details, fetchQueue, pc, target, stopping>>
storage == <<names, parkOrder, parked, lock, waiters, flushing, closing>>
histories == <<arrived, handed, dropped, aborted, forgotten>>
vars == <<feed, inHand, collector, storage, histories>>

LockFree == lock = Nobody /\ waiters = <<>>

Init ==
    /\ feed = "idle" /\ inHand = {}
    /\ details = {}
    /\ fetchQueue = <<>>
    /\ pc = [w \in Workers |-> "idle"]
    /\ target \in [Workers -> Devices]
    /\ stopping = FALSE
    /\ names = <<>>
    /\ parkOrder = <<>>
    /\ parked = [d \in Devices |-> <<>>]
    /\ lock = Nobody /\ waiters = <<>>
    /\ flushing = {} /\ closing = "no"
    /\ arrived = {} /\ dropped = {} /\ aborted = {}
    /\ handed = [e \in Events |-> 0] /\ forgotten = {}

Hand(events) == handed' = [e \in Events |-> IF e \in events THEN handed[e] + 1 ELSE handed[e]]

\* set_device_name: at capacity the name cached first makes room.
NamesWith(d) ==
    IF d \in ToSet(names) THEN names
    ELSE Append(IF Len(names) >= MaxDevices THEN Tail(names) ELSE names, d)

Forget == forgotten' = forgotten \cup (ToSet(names) \ ToSet(names'))

\* put_nowait of a device to fetch: a full queue drops it.
AskFetch(d) ==
    fetchQueue' = IF Len(fetchQueue) < QueueSize THEN Append(fetchQueue, d) ELSE fetchQueue

-----------------------------------------------------------------------------
(* The feed *)

\* Faulty: the bound is tested too late.
FullOneMore(events) == Len(events) > MaxParked

Full(events) == Len(events) >= MaxParked

\* _queue_timeline_event: too many devices drop the oldest one with its events,
\* too many events of a device drop its oldest.
Park(e) ==
    LET d == DeviceOf[e]
        evicted == IF parked[d] = <<>> /\ Len(parkOrder) >= MaxDevices
                   THEN {Head(parkOrder)} ELSE {}
        popped == IF Full(parked[d]) THEN {Head(parked[d])} ELSE {}
    IN  /\ parked' = [c \in Devices |->
              IF c = d THEN Append(IF popped = {} THEN parked[d] ELSE Tail(parked[d]), e)
              ELSE IF c \in evicted THEN <<>> ELSE parked[c]]
        /\ parkOrder' = (IF evicted = {} THEN parkOrder ELSE Tail(parkOrder))
              \o (IF parked[d] = <<>> THEN <<d>> ELSE <<>>)
        /\ dropped' = dropped \cup popped \cup UNION {ToSet(parked[c]) : c \in evicted}

\* The id may stand in for the name: a cached detail is asked for the name and
\* nothing else is, otherwise the name cache and the item itself are.
IdStandsIn(d) == IF d \in details THEN d \in Nameless ELSE d \notin ToSet(names)

\* A timeline item, with a name of its own or without, is written under its
\* device's name; with the id for a name it is parked, at once if the lock is
\* free.
EventArrives(e) ==
    /\ feed = "idle" /\ ~stopping
    /\ e \notin arrived
    /\ arrived' = arrived \cup {e}
    /\ \/ /\ DeviceOf[e] \in details => ~IdStandsIn(DeviceOf[e])
          /\ feed' = "writing"
          /\ inHand' = {e}
          /\ UNCHANGED <<fetchQueue, parkOrder, parked, waiters, dropped>>
       \/ /\ IdStandsIn(DeviceOf[e]) /\ LockFree
          /\ Park(e)
          /\ AskFetch(DeviceOf[e])
          /\ UNCHANGED <<feed, inHand, waiters>>
       \/ /\ IdStandsIn(DeviceOf[e]) /\ ~LockFree
          /\ feed' = "locking"
          /\ inHand' = {e}
          /\ waiters' = Append(waiters, Feed)
          /\ UNCHANGED <<fetchQueue, parkOrder, parked, dropped>>
    /\ UNCHANGED <<details, pc, target, stopping, names, lock, flushing, closing,
                   handed, aborted, forgotten>>

EventParked ==
    /\ feed = "locking"
    /\ lock = Nobody /\ Head(waiters) = Feed
    /\ waiters' = Tail(waiters)
    /\ \E e \in inHand : Park(e) /\ AskFetch(DeviceOf[e])
    /\ feed' = "idle" /\ inHand' = {}
    /\ UNCHANGED <<details, pc, target, stopping, names, lock, flushing, closing,
                   arrived, handed, aborted, forgotten>>

EventWritten ==
    /\ feed = "writing"
    /\ Hand(inHand)
    /\ \E e \in inHand : AskFetch(DeviceOf[e])
    /\ feed' = "idle" /\ inHand' = {}
    /\ UNCHANGED <<details, pc, target, stopping, storage, arrived, dropped, aborted,
                   forgotten>>

\* The connection ends while the handler awaits: the reader is cancelled.  A
\* shutdown cancels the feed for good.
ReaderCancelled ==
    /\ ~stopping
    /\ \/ stopping' = TRUE
       \/ feed # "idle" /\ UNCHANGED stopping
    /\ feed' = "idle" /\ inHand' = {}
    /\ aborted' = aborted \cup inHand
    /\ waiters' = RemoveFirst(waiters, Feed)
    /\ UNCHANGED <<details, fetchQueue, pc, target, names, parkOrder, parked, lock,
                   flushing, closing, arrived, handed, dropped, forgotten>>

\* A change of state asks for the device's detail too.
StateChanges(d) ==
    /\ feed = "idle" /\ ~stopping
    /\ Len(fetchQueue) < QueueSize
    /\ AskFetch(d)
    /\ UNCHANGED <<feed, inHand, details, pc, target, stopping, storage, histories>>

\* The periodic device list names a device.
DeviceListed(d) ==
    /\ ~stopping
    /\ d \notin ToSet(names)
    /\ names' = NamesWith(d) /\ Forget
    /\ UNCHANGED <<feed, inHand, collector, parkOrder, parked, lock, waiters, flushing,
                   closing, arrived, handed, dropped, aborted>>

-----------------------------------------------------------------------------
(* A worker *)

Goto(w, place) == pc' = [pc EXCEPT ![w] = place]

\* A device whose detail is cached is not fetched.
Take(w) ==
    /\ pc[w] = "idle" /\ ~stopping
    /\ fetchQueue # <<>>
    /\ fetchQueue' = Tail(fetchQueue)
    /\ target' = [target EXCEPT ![w] = Head(fetchQueue)]
    /\ IF Head(fetchQueue) \in details THEN UNCHANGED pc ELSE Goto(w, "fetching")
    /\ UNCHANGED <<feed, inHand, details, stopping, storage, histories>>

FetchFails(w) ==
    /\ pc[w] = "fetching"
    /\ Goto(w, "idle")
    /\ UNCHANGED <<feed, inHand, details, fetchQueue, target, stopping, storage, histories>>

\* Faulty: the name that a detail brings is not cached.
NamesOnFetchNot(d) == names

\* The name is cached before the lock is asked for.
NamesOnFetch(d) == NamesWith(d)

\* process_queued_timeline_events, the lock won.  An id that is no string raises: the
\* lock is free again, the events stay, and persist_device_data returns True.
Release(w) ==
    IF parked[target[w]] = <<>> \/ target[w] \in Odd
    THEN Goto(w, "detail") /\ lock' = Nobody
    ELSE Goto(w, "releasing") /\ lock' = w

FetchSucceeds(w) ==
    /\ pc[w] = "fetching"
    /\ names' = NamesOnFetch(target[w]) /\ Forget
    /\ IF LockFree
       THEN Release(w) /\ UNCHANGED waiters
       ELSE Goto(w, "locking") /\ waiters' = Append(waiters, w) /\ UNCHANGED lock
    /\ UNCHANGED <<feed, inHand, details, fetchQueue, target, stopping, parkOrder, parked,
                   flushing, closing, arrived, handed, dropped, aborted>>

LockWon(w) ==
    /\ pc[w] = "locking"
    /\ lock = Nobody /\ Head(waiters) = w
    /\ waiters' = Tail(waiters)
    /\ Release(w)
    /\ UNCHANGED <<feed, inHand, details, fetchQueue, target, stopping, names, parkOrder,
                   parked, flushing, closing, histories>>

\* Faulty: the released events stay in the queue.
ParkedAfterReleaseKept(d) == parked

ParkedAfterRelease(d) == [parked EXCEPT ![d] = <<>>]

\* The write has succeeded or failed; either way the events are forgotten.
Released(w) ==
    /\ pc[w] = "releasing"
    /\ Hand(ToSet(parked[target[w]]))
    /\ parked' = ParkedAfterRelease(target[w])
    /\ parkOrder' = RemoveFirst(parkOrder, target[w])
    /\ lock' = Nobody
    /\ Goto(w, "detail")
    /\ UNCHANGED <<feed, inHand, details, fetchQueue, target, stopping, names, waiters,
                   flushing, closing, arrived, dropped, aborted, forgotten>>

\* The detail is cached only if its write succeeded.
DetailWritten(w) ==
    /\ pc[w] = "detail"
    /\ details' \in {details, details \cup {target[w]}}
    /\ Goto(w, "idle")
    /\ UNCHANGED <<feed, inHand, fetchQueue, target, stopping, storage, histories>>

\* Expiry or eviction (DeviceCache).
DetailExpires(d) ==
    /\ d \in details
    /\ details' = details \ {d}
    /\ UNCHANGED <<feed, inHand, fetchQueue, pc, target, stopping, storage, histories>>

\* Faulty: a holder that is cancelled keeps the lock.
LockAfterCancelKept(w) == lock

\* `async with` gives the lock back.
LockAfterCancel(w) == IF lock = w THEN Nobody ELSE lock

\* A signal that falls into shutdown() cancels the gather and with it the workers,
\* wherever each of them awaits.  The events that one was writing stay parked.
WorkerCancelled(w) ==
    /\ stopping
    /\ pc[w] # "idle"
    /\ Goto(w, "idle")
    /\ lock' = LockAfterCancel(w)
    /\ waiters' = RemoveFirst(waiters, w)
    /\ UNCHANGED <<feed, inHand, details, fetchQueue, target, stopping, names, parkOrder,
                   parked, flushing, closing, histories>>

-----------------------------------------------------------------------------
(* close() of the storage.  A shutdown that was broken off leaves workers at work. *)

\* The write of the remaining readings raises (DeviceReadings), and close() with it.
RestRaises ==
    /\ stopping /\ closing = "no"
    /\ closing' = "raised"
    /\ UNCHANGED <<feed, inHand, collector, names, parkOrder, parked, lock, waiters,
                   flushing, histories>>

\* The devices whose parked events are written on close, under the cached name
\* or the id.
Flushed == Devices

\* The lock won: one device whose events make no points, and nothing is written.
Flush ==
    /\ IF \E d \in Odd : parked[d] # <<>>
       THEN closing' = "raised" /\ UNCHANGED <<flushing, parked, parkOrder>>
       ELSE /\ flushing' = UNION {ToSet(parked[d]) : d \in Flushed}
            /\ parked' = [d \in Devices |-> <<>>]
            /\ parkOrder' = <<>>
            /\ closing' = IF flushing' = {} THEN "done" ELSE "writing"
    /\ UNCHANGED <<feed, inHand, collector, names, lock, histories>>

CloseReachesFlush ==
    /\ stopping /\ closing = "no"
    /\ IF LockFree
       THEN Flush /\ UNCHANGED waiters
       ELSE /\ closing' = "locking"
            /\ waiters' = Append(waiters, Closer)
            /\ UNCHANGED <<feed, inHand, collector, names, parkOrder, parked, lock,
                           flushing, histories>>

CloseWinsLock ==
    /\ closing = "locking"
    /\ lock = Nobody /\ Head(waiters) = Closer
    /\ waiters' = Tail(waiters)
    /\ Flush

\* Written or not: the queue was emptied before.
FlushEnds ==
    /\ closing = "writing"
    /\ Hand(flushing)
    /\ flushing' = {}
    /\ closing' = "done"
    /\ UNCHANGED <<feed, inHand, collector, names, parkOrder, parked, lock, waiters,
                   arrived, dropped, aborted, forgotten>>

CloseStep == RestRaises \/ CloseReachesFlush \/ CloseWinsLock \/ FlushEnds

WorkerStep(w) ==
    \/ Take(w) \/ FetchFails(w) \/ FetchSucceeds(w)
    \/ LockWon(w) \/ Released(w) \/ DetailWritten(w)

Next ==
    \/ \E e \in Events : EventArrives(e)
    \/ EventParked \/ EventWritten \/ ReaderCancelled
    \/ \E d \in Devices : StateChanges(d) \/ DeviceListed(d) \/ DetailExpires(d)
    \/ \E w \in Workers : WorkerStep(w) \/ WorkerCancelled(w)
    \/ CloseStep

Spec == Init /\ [][Next]_vars

(***************************************************************************)
(* Fairness: asyncio runs every ready task; requests and writes end,       *)
(* because both have timeouts (HTTP_TIMEOUT, INFLUXDB_TIMEOUT); main()     *)
(* closes the storage once it shuts down.  Nothing need be cancelled.      *)
(***************************************************************************)
Fairness ==
    /\ \A w \in Workers : WF_vars(WorkerStep(w))
    /\ WF_vars(EventParked) /\ WF_vars(EventWritten)
    /\ WF_vars(CloseStep)

FairSpec == Spec /\ Fairness

-----------------------------------------------------------------------------
(* Properties *)

Busy == {"locking", "writing"}

\* The queues keep their bounds, and the tasks are in one of their states.
TypeOK ==
    /\ feed \in Busy \cup {"idle"} /\ inHand \in SUBSET Events
    /\ details \in SUBSET Devices
    /\ fetchQueue \in Seq(Devices) /\ Len(fetchQueue) <= QueueSize
    /\ pc \in [Workers -> {"idle", "fetching", "locking", "releasing", "detail"}]
    /\ target \in [Workers -> Devices]
    /\ stopping \in BOOLEAN
    /\ closing \in {"no", "locking", "writing", "done", "raised"}
    /\ names \in Seq(Devices) /\ Len(names) <= MaxDevices
    /\ parkOrder \in Seq(Devices) /\ Len(parkOrder) <= MaxDevices
    /\ parked \in [Devices -> Seq(Events)]
    /\ \A d \in Devices : Len(parked[d]) <= MaxParked
    /\ lock \in Workers \cup {Nobody}
    /\ waiters \in Seq(Workers \cup {Feed, Closer})
    /\ flushing \in SUBSET Events
    /\ arrived \in SUBSET Events /\ dropped \in SUBSET Events /\ aborted \in SUBSET Events
    /\ handed \in [Events -> Nat] /\ forgotten \in SUBSET Devices

\* In how many places an event is, counting each completed write as a place.
Places(e) ==
    Cardinality({place \in 1..4 : e \in <<inHand, flushing, dropped, aborted>>[place]})
    + Cardinality({i \in DOMAIN parked[DeviceOf[e]] : parked[DeviceOf[e]][i] = e})
    + handed[e]

\* No event is lost without a trace and none is written twice: each one that
\* came is in hand, parked, being flushed, written (or counted as failed) once,
\* dropped by a full queue, or aborted with its reader, and only one of these.
\* (A write counts when it is completed.  One that a cancelled worker broke off may
\* have reached InfluxDB; its events stay parked, and the flush writes them again.)
EachEventInOnePlace ==
    \A e \in Events : Places(e) = IF e \in arrived THEN 1 ELSE 0

\* A parked event is reachable: the detail of its device is not cached, for a worker
\* would then skip the fetch that releases the event.  It takes the order of name, lock and
\* cache in the worker, and the order of the lock, to make this true while fetches of the
\* device and its events overlap.  (The comment in process_timeline_item: an event without
\* a name waits "until a detail fetch names the device".)  Three kinds of device are
\* excepted: one whose detail carries no name, one whose name the cache has evicted for
\* want of room, and one whose id is no string.
ParkedIsReachable ==
    \A d \in Devices \ (Nameless \cup Odd \cup forgotten) :
        parked[d] # <<>> => d \notin details

\* A shutdown ends with every parked event handed to InfluxDB, whoever holds the lock
\* when it begins, awaits it, or is cancelled between lock and write.  It is not when
\* close() raises before the flush writes: over the remaining readings, or over a parked
\* event of which no point can be made.
ShutdownFlushes ==
    stopping ~> \/ closing = "raised"
                \/ closing = "done" /\ \A d \in Devices : parked[d] = <<>>
=============================================================================
