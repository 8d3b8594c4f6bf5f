# Formal model of sense-collector

sense-collector is one asyncio process. It logs in to the Sense API, holds a WebSocket to the
realtime feed, fetches device details over REST, and writes what it sees to InfluxDB. This
directory holds TLA+ specifications of its core logic, the TLC configurations that check them,
and theorems proved with TLAPS. Every definition is translated from the Python source;
`PROJECT.json` maps each definition to the lines it stands for.

Contents: [the system](#the-system) · [modules](#modules) · [runs](#runs) ·
[fairness](#fairness) · [proofs](#proofs) · [what the runs refute](#what-the-runs-refute) ·
[not modelled](#not-modelled) · [plan](#plan)

## The system

| Component | State | Operations | Correct means |
|---|---|---|---|
| Access token, `client.py` `authenticate`, `_renew`, `refresh_ws_url`, `check_token_renewal` | token and its age, `_auth_lock`, `_auth_failures`, `_auth_retry_at` | renew by age, after a 401, after a rejected WebSocket handshake | one login at a time, paced after failures, never for a young token; a refused token is replaced |
| REST requests, `client.py` `make_api_request` | `api_semaphore`, `last_api_call_time`, a retry count per request | pace, send, retry on 401, 429 and failures | every request ends; no request repeats a token it saw refused; bursts are bounded |
| Device cache, `client.py` `DeviceCache` | a dict and a deque | get, put, clear | dict and deque agree; eviction is least recently used |
| Feed handler, `websocket.py` | `ws`, `ws_url`, `auth_failures`, backoff, two child tasks per connection | connect, read, monitor, reconnect, refresh the URL | no task outlives its connection, silence is noticed, a lost feed comes back, the limit means bad credentials |
| Workers and lifecycle, `main.py`; `client.py` `collect_sense_data`, `api_worker`, `shutdown` | the storage, `api_call_queue`, the tasks, `is_shutting_down`, `shutdown_event`, the exit code | validate, connect, log in, start, take and fetch, stop signals, cancel, close | an error never costs a worker; a signal or failure leads to an orderly close and the exit code tells them apart |
| Frame dispatch, `client.py` `process_websocket_data` and handlers | the frame in hand | one handler per message type | a bad item costs nothing but itself; what is written is looked up; only usable mains readings count as alive |
| Timeline events and names, `client.py` and `influxdb.py` | `timeline_event_queue`, `device_name_cache` | park, release, flush | an event is written once, under the device's name when it is known |
| InfluxDB storage, `influxdb.py` | `write_api`, `write_stats`, device queue and its processor | build points, write, batch, close | every point is counted; a number keeps its field's type; nothing that was accepted is lost in a shutdown |
| Heartbeat and health check, `health/`, `config.py` | a file's modification time, `_last_heartbeat`, two settings | touch (throttled), check | healthy exactly while usable data arrives |
| Configuration, `config.py` | settings | parse and clamp | every setting is in its range |

How they interact. `main()` opens the storage and the collector, then runs one *data task*
(`collect_sense_data`) until it ends or a signal arrives. The data task starts the API workers
and two periodic tasks, then becomes the feed handler's loop. Frames are handled one at a time by
the reader task of the connection; the handler awaits the InfluxDB writes and puts devices to
fetch on `api_call_queue`, from which the workers take. Workers, periodic tasks and the feed
handler share the token, `_auth_lock`, the semaphore and the storage. All of this is cooperative:
a task runs from one `await` that suspends to the next, which is what a step of the models is.
A second process, the Docker health check, reads one thing: the age of the heartbeat file.

What is hard here: what another task did between reading and using shared state (the token, the
interval, the parked events); cancellation at any `await`, in `finally` too; the bounded queue that
carries both work and stop signals; timeouts that race slow writes; failures that must be retried
but not for ever. `PROJECT.json` lists each of these hazards at its line with the properties that
would catch it.

Which module extends or instantiates which:

    LoginGate <- SenseAuth (implements it) <- MCSenseAuth, SenseAuth_proofs
    LoginGate, WebSocketHandler <- FeedSession <- FeedSession_proofs
    DeviceCache <- DeviceDetails <- DeviceDetails_proofs
    CollectorTasks <- MCCollectorTasks, CollectorTasks_proofs
    Heartbeat, PointFields <- Frames <- MCFrames, Frames_proofs
    TimelineEvents <- MCTimelineEvents, TimelineEvents_proofs
    DeviceReadings <- DeviceReadings_proofs
    ApiPacing <- ApiPacing_proofs

## Modules

Conventions. A step runs from one `await` that suspends to the next; an `await` that cannot suspend
(a free lock, `get()` of a queue that is not empty) is no boundary. Times are *ages* and *times
left*, counted in ticks and stopped at the largest value the code compares them with, so no clock
needs a bound. A `Tick` may happen at any time in `SenseAuth`, `WebSocketHandler`, `FeedSession`,
`DeviceDetails`, `Frames` and `ApiPacing`; in `DeviceReadings`, where a property compares timeouts
with each other, it waits for what is ready. What a task does next is in a `pc`-like variable whose
values name the awaits. A definition marked *Faulty* or *A variant* belongs to no specification: it
is the plausible bug that shows that a property can fail.

`LoginGate` — the abstract specification of password logins: at most one at a time, none while
the wait after a failed one runs, none that would replace a token younger than `MinReauthAge`.

`SenseAuth` — the token in detail. `tokenAge`, `authFailures`, `authRetryAt`, `authLock` are the
fields of `SenseCollector`. A member of `Requests` runs `check_token_renewal` (`StartRequest`)
and then the loop of `make_api_request`: `FirstAttempt`, then one of `Answered`, `Refused` (401),
`Throttled` (429), `Failed`, and `ThrottleEnds` or `BackoffEnds` with their checks of the
shutdown. `Feed` is the WebSocket handler in `refresh_ws_url`. Both enter `_renew`, whose two
outcomes under the lock are `RenewSkipped` and `LoginStarts`; the login ends in `LoginSucceeds`
or `LoginFails` (the multi-factor step is part of it). `Cancelled` throws CancelledError into a
`Cancellable` task at any await. In a shutdown that is the feed handler and the periodic tasks, and
the API workers too when a signal falls into the `gather` in which `shutdown()` waits for them.
`Revoke` is Sense. `MCSenseAuth` instantiates it, `SenseAuth_proofs` proves about it.

`ApiPacing` — the head of `make_api_request`: winning the semaphore, a request reads
`last_api_call_time`. If the interval has passed it sets it and is sent without an await between
(`AcquireAndCall`); if not it sleeps (`AcquireAndPace`) and sets it when it wakes (`FirstCall`).
`Release` returns. The retry loop in between is that of `SenseAuth`.

`WebSocketHandler` — `run()` of the feed with its reader and its monitor. `pc` is where the loop
awaits: the handshake, the URL refresh, `asyncio.wait` on the two tasks, the gather and the
close in `finally`, the delay. `Cancel` throws CancelledError into it once, at any of these, and
`finally` continues from there. `reader` and `health` are the tasks; `FrameArrives` to
`FrameHandled` is the callback with its writes, which may hang.

`FeedSession` — `WebSocketHandler` with the logins behind `refresh_url`. What a refresh may return
is derived here, not chosen: `FeedRejected` waits out the backoff of a failed login (`nap`), then
`FeedReuses` finds the token young or the backoff running again, or `FeedLogsIn` takes the gate and
ends in `FeedLoginSucceeds`, `FeedLoginFails` or `FeedLoginRaises`. `RestLogsIn` and its endings are
the REST callers, who renew the token without renewing the URL; `PresentTokenDies` and
`OldTokenDies` are Sense. The logins are those of `LoginGate`, which is what `SenseAuth` implements,
so the composition stands on that refinement. The gate is instantiated with `MaxFailures` 1 (the
waits of further failures are among those of the first) and `RenewInterval` equal to
`MinReauthAge` (older tokens look alike to the gate). That a shutdown flag cuts the nap short is left
out: the cancellation that comes with it does so anyway.

`DeviceCache` — the dict and the deque of device details. No operation awaits under the lock, so
each is one step: `Hit`, `MissExpired`, `Put`, `Clear`.

`DeviceDetails` — the cache in use. A worker looks a device up (`TakesCached`, `TakesUncached`),
fetches it (`Fetched`, `FetchFails`), and is in `persist_device_data`: `EventsReleased` is the lock
and the parked events, `DetailWritten` the detail point, `ComparisonFollows` and
`ComparisonWritten` the two points of the always-on device. `DealtWith` is the result that decides
whether `PersistEnds` caches. A detail is one of the `Payloads` that the code tells apart.

`CollectorTasks` — the process from start to exit. `main` is `main()` with asyncio's runner:
`Validate`, `Connect`, `Authenticate` are startup, each of which may fail (`FailStartup`);
`MainWakes` is the end of `asyncio.wait` with the cancellation of the data task wherever it is;
`MainCloses` is the cleanup, in which `close()` of the storage may raise (`StorageAfterCleanup`),
`RunnerCloses` the exit. `data` is `collect_sense_data` with the
`shutdown()` in its `finally` ("putting" stop signals, then "gathering" the workers), `worker` the
API workers. `Enqueue` stands for whatever puts a device on `api_call_queue`, `SignalArrives` for
the signal handler, `DataFails` for any exception that leaves the feed handler's loop. `exitCode`
is what the process will exit with.

`Heartbeat` — the two settings as they are read (`MaxAgeOf`, `IntervalOf` with `validate_int`'s
clamping and its fallback), the throttled touch, which notes the time before a touch that may fail,
and the check of the other process. The clock may be stepped between two touches; `heard` keeps
real time.

`PointFields` — what a JSON value, abstracted to its kind, becomes in each group of fields (`_num`,
`_as_float`, `_yearly_cost`, `_whole`, `float()`, or as it comes), and what a shard, where the
first write of a field fixes its type, does with the point (`Stored`).

`Frames` — one frame from `recv()` to the heartbeat. `HandleRealtime` prepares the points of a
realtime frame and awaits their one write, `RealtimeWritten` ends it and touches the heartbeat if
the reading was usable. `HandleItems` and `ItemWritten` go through the items of the other types,
one awaited write each; a state's detail fetch is offered before its write, an event's after it.
`FrameCut` is the cancellation of the reader, `Restart` that of the process, `DetailWritten` the REST
answers that workers write to the same shard. `MCFrames` has a frame of every type, and bad
items next to good ones.

`TimelineEvents` — an event from its arrival to its one write. `EventArrives` is
`handle_timeline_event` with the storage's `process_timeline_item` up to its first await;
`EventParked` is that of a handler that had to wait for the lock. A worker takes a device
(`Take`), fetches it (`FetchSucceeds`, `FetchFails`), wins the lock and releases the parked
events (`LockWon`, `Released`), then writes the detail and caches it (`DetailWritten`): the order
of name, lock and cache is what `ParkedIsReachable` depends on. `ReaderCancelled` begins the
shutdown; in a gather that a signal breaks off, `WorkerCancelled` ends a worker at any await, between
lock and write too, and gives the lock back. `RestRaises`, `CloseReachesFlush`, `CloseWinsLock` and
`FlushEnds` are `close()` of the storage, which waits for the lock like any other and may raise before
it flushes: over the readings that remain, or over a parked event whose device has an `Odd` id, of
which no point can be made (`Flush`). The lock is served in the order of `waiters`. `StateChanges` and
`DeviceListed` are the other ways in which a fetch is asked for and a name learnt.

`DeviceReadings` — the queue of always-on readings. `AddDeviceData` offers one; the processor
collects (`Got`, `GetTimedOut`), writes a batch (`BatchWritten`), yields or pauses after an error
(`Resume`); `CloseStarts`, `ProcessorEnded`, `CancelProcessor`, `ProcessRest`, `NothingRemains`,
`RestWritten` and `CloseClient` are `close()`. Readings are counted, not told apart: whether one
has a name or can be written is chosen when it is processed, and a partial write may report any
number of lost points.

## Runs

| Run | Module | What it shows | Bounds |
|---|---|---|---|
| `sense_auth` | `MCSenseAuth` | logins are exclusive and paced, no request resends a refused token, the callers implement `LoginGate`; every request and refresh ends; a refused token is renewed | one request and the feed |
| `feed_session` | `FeedSession` | tasks end with their connection, silence belongs to this connection and is noticed, the limit means bad credentials and a login tried, the feed returns, a cancellation ends the loop | delays 1 and 2, limit 3, silence 2, minimum age 2, backoff 2 |
| `slow_handler` | `WebSocketHandler` | *refuted*: the monitor acts on silence only | delays 1 to 3, limit 2, silence 3 |
| `device_details` | `DeviceDetails` | dict and deque agree, eviction is least recently used, good details stay, a hit means that InfluxDB has the detail | three devices, two places, lifetime 2, two workers |
| `collector_tasks` | `MCCollectorTasks` | errors cost no worker, the close is orderly, a signal ends a blocked shutdown, the exit code and the storage are right at exit | three workers, queue of 5 |
| `full_queue_shutdown` | `MCCollectorTasks` | *refuted*: a shutdown always completes | three workers, a queue that can fill |
| `api_pacing` | `ApiPacing` | no more requests in an interval than the semaphore admits | four requests, two places, interval 3 |
| `api_spacing` | `ApiPacing` | *refuted*: requests are spaced by the interval, as one may call while another sleeps over the value it read | same |
| `timeline_events` | `MCTimelineEvents` | each event is in one place, parked events are reachable, the shutdown flushes unless `close()` raises | two devices, one without a name and with an odd id, three events, two workers, all limits 1 |
| `device_readings` | `DeviceReadings` | every reading is accounted for, only a slow write is cancelled with its readings, readings settle, `close()` ends | five readings, queue and batch of 2 |
| `slow_write` | `DeviceReadings` | *refuted*: nothing is cancelled, when a write may outlast the wait of `close()` | four readings, a write of up to 6 ticks |
| `frames` | `MCFrames` | healthy means usable data and usable data means healthy; a bad item costs itself; what is written is looked up; a number keeps its field | 14 frames, five details, max age 2 or 4, interval clamped or garbage, clock step 1, three watched fields |

Why the bounds are enough:

- `sense_auth`: two callers are the least with one in the login and one queued behind it or between
  its 401 and its retry; the theorems about logins hold for any number of callers. The minimum age
  (1), the wait of a request (2), the login backoff (2 to 3) and the renewal age (3) differ, so that
  each can end before and after the next; one retry gives both "again" and "no more"; a 429 asks for
  no wait or for more than is allowed; with two failures the second reaches the cap.
- `feed_session`: a limit of 3 tells the first rejection, one in the middle and the last apart; 1 and
  2 are a doubling and a cap. The waits after the first two rejections (3) outlast the minimum age
  (2) by the least possible, and the backoff of a failed login (2) is as long as a wait. The timeout
  is longer than a check, so that a check can find nothing wrong.
- `device_details`: three devices exceed two places. Two workers suffice to fetch one device at the
  same time or to evict what the other has just cached. The history `used` is bounded by the devices.
- `collector_tasks`: `Enqueue` adds devices up to `MaxBacklog`. A full queue and one with room for
  none, some or all of three stop signals occur.
- `frames`: a max age of 2 is the smallest, where half of it is 1, and 4 one with room; the default
  interval (3) is too long for the first, as 15 s is for a max age under 30 s. A write
  takes one tick at most (`WriteTimeout`), against the two of the smaller max age; how long it may be
  is a parameter of the theorem. Lists have a bad item
  before and between good ones. Of the groups of fields one that passes `_num`, one
  that is parsed and one that is whole are watched: in a shard fields are independent.
- `api_pacing`: two requests fill the semaphore and two wait for it.
- `timeline_events`: two workers that fetch the same device, two events of it and one of another;
  limits of 1 make all three full: parked devices, parked events of one device, fetches. The second
  device has no name and an odd id, so both ways in which `close()` raises occur, and neither.
- `device_readings`: five readings fill the queue, a batch and one more. A write may take 4 ticks,
  twice the batch timeout, so `close()` cancels some (at 3) and waits for others; the pause after an
  error is longer than the wait of `close()`, so that it also cancels with nothing in hand.

`CHECK_DEADLOCK FALSE` stands where the process really stops: after `main()` has closed, or when
all of the bounded number of readings or events is done with. The other runs check deadlock.
Every property of a passing run is paired, in `PROJECT.json` under `mutants`, with a plausible
bug that breaks it.

## Fairness

- `SenseAuth`: time passes; HTTP exchanges end, because `HTTP_TIMEOUT` and `HTTP_AUTH_TIMEOUT`
  bound them; `asyncio.Lock` serves in order, so a caller is served if the lock is free again and
  again (strong fairness); tasks that run periodically ask again; Sense answers 401 to a token it
  refuses if it is asked often enough, rather than 429 for ever.
- `WebSocketHandler`: asyncio runs ready tasks; handshake, close and ping have timeouts. Handshakes
  are answered if tried often enough (strong fairness); without that a feed need not return, and
  `LimitMeansBadCredentials` needs none of it. Nothing makes a frame arrive, nor its handling end.
- `FeedSession`: the same, and: logins end, by their timeouts; the lock is handed on in the order of
  asking and REST callers leave it again and again, so the handler gets it (strong fairness of
  `FeedRefresh`); a login that is tried often enough succeeds. `FeedReturns` is conditional on a
  Sense that stops refusing good tokens.
- `CollectorTasks`: asyncio runs ready tasks; the ping, the first login and each fetch end, since
  calls have timeouts and retries a limit (`EveryCallEnds` is this, for the requests themselves). No
  fairness on signals and failures.
- `Frames` and `DeviceDetails`: none; their properties are about safety.
- `TimelineEvents`: ready tasks run; requests and writes end (`HTTP_TIMEOUT`,
  `INFLUXDB_TIMEOUT`), and `close()` goes on. No fairness on arrivals, on the start of a shutdown, nor
  on the two ways in which a shutdown goes wrong (`WorkerCancelled`, `RestRaises`).
- `DeviceReadings`: weak fairness of the event loop as a whole; time passes only when nothing is
  ready, and a timer bounds every wait, so one condition is enough.

## Proofs

All are checked by TLAPS, for all values of the constants that satisfy the named assumption of the
module. These state the ranges that `config.py` enforces and that different roles are different
tasks. Four say more: `AuthAssumption`, that `MaxFailures` is where counting further failures makes
no difference to the wait; `PacingAssumption` of `FeedSession`, that the waits after the first
`Limit - 1` rejections outlast the minimum age (see [below](#what-the-runs-refute));
`HeartbeatAssumption`, that the smallest max age is at least 2; `FramesAssumption`, that the points in
a frame are such as the persist methods make, which have passed `float()`.

Every safety property that a passing run checks is a theorem, without conditions beyond the named
assumptions.

| Module | Theorem | Argument |
|---|---|---|
| `SenseAuth_proofs` | `TypeCorrect` | `TypeOK` is inductive: a backoff lies between its base power and the cap, an age stops one above the renewal age |
| | `Exclusive` | `LockInv`: who is in the login is the holder of the lock, and a held lock means no backoff runs. `LoginsAreExclusive` alone is not inductive, as it says nothing of a lock held by a task that is not in the login |
| | `NoResend` | `RefusalInv`: a request that saw the present token refused is not about to send; if it is in `_renew`, it is there for that reason and with that token, so `_renew` either replaces the token or ends the request |
| | `Refinement` | each step maps to a step of `LoginGate` or a stutter, given `TypeOK` and `LockInv` |
| `CollectorTasks_proofs` | `TypeCorrect` | `TypeOK` is inductive: `shutdown()` puts at once as many stop signals as the queue has room for, and keeps count of the rest |
| | `WorkersStay`, `ClosedLast` | `EndInv`: a worker has ended, or a stop signal is queued, only if the shutdown has begun; `shutdown()` waits for room exactly while stop signals are left; the gather is over only when all workers have ended |
| | `ExitsCleanly` | `ExitInv`: from the wake-up of `main()` on, an exit code of 0 means a signal; once `main()` has closed, a storage that was not asked to close means that no data task ever ran and that the code is 1. `ExitIsClean` alone speaks of the exit only and is not inductive |
| `DeviceReadings_proofs` | `TypeCorrect`, `Accounted` | `Inv` joins the types, the sum of `EachReadingAccounted` and `PlaceInv`, where readings can be: a batch only while collecting, points under way only while writing, a remainder only while `close()` drains. Without it a step that clears a place could lose a reading there. The lemmas say that each stage (sorting, writing, counting losses) decides each of its readings once |
| | `OnlySlowCancelled` | `WaitInv`: while `close()` waits, what is left of its wait outlasts the get under way by `QUEUE_BATCH_TIMEOUT`, and what is left of it and what the write has taken so far exceed `QUEUE_BATCH_TIMEOUT` together. So when the wait is over the processor is not collecting, and a write in its hands has lasted longer; in any other place `PlaceInv` leaves it nothing. The action property says nothing of the wait before its end |
| `ApiPacing_proofs` | `BurstBounded` | `PacingInv`: of those that were or may yet be sent within the interval of some request, no more than the semaphore admits. A request that reads `last_api_call_time` after another was sent sleeps until that one is no longer recent, so all in one window held the semaphore together. `BurstIsBounded` counts those that were sent and says nothing of those that sleep |
| `DeviceDetails_proofs` | `CacheUsed` | `HandInv`: a worker that is about something has a device in hand; so each of its steps is an operation of `DeviceCache`, or a stutter |
| | `CacheAgrees`, `CacheOrdered`, `GoodStay` | `CacheInv` of `DeviceCache`: the deque is the history `used`, cut down to the keys of the dict, and has no entry twice. The lemmas say what remains of a sequence when members are cut out and one is moved to the end. By `CacheUsed` the theorems hold of the cache in use |
| | `CachedDealtWith` | `FateInv`: what is recorded of a cached detail is recorded for exactly the cached ones |
| `FeedSession_proofs` | `TypeCorrect`, `TasksEnd`, `SilenceOwn`, `LimitMeansBad` | `HandlerInv` of `WebSocketHandler`: which tasks live at which await, that only a cancellation leads past the gather, that `auth_failures` is 0 while connected, and that each rejection but the last was followed by a refresh that brought a token Sense refuses, unless the URL has a valid one at present |
| | `FeedIsHandler` | each step of the session is one of the handler, or a stutter |
| | `LimitMeansTried` | `UntriedAges`: while no login is tried, the token is as old as the waits since the first rejection, of which `Waited` gives the least. After the last wait it would be too old to be used again, so `_renew` logs in |
| `Frames_proofs` | `TypeCorrect`, `BadItemAlone`, `LookedUp` | `ReaderInv`: how far a list has been worked through, what of it was written and offered for a fetch, and that a realtime frame in its write passed its preparation |
| | `HealthyTells`, `ReceivingHealthy` | `HeartInv`: the age of the file, but for a step of the clock, bounds the time since a usable reading from below, but for the time of one write (`FileTells`), and is bounded by it and half of the max age from above (`TouchedInTime`) |
| | `FieldsKept` | `ShardInv`: a converted field has the type it is converted to, or an improper value came first; through any number of points by induction |
| `TimelineEvents_proofs` | `TypeCorrect` | `TypeOK` is inductive: what joins a full queue or cache does so for one that leaves |
| | `OnePlace` | `PlaceInv`: the places exclude each other, and a queue holds each event once and only those of its device. The property counts places, and says nothing of an event in the queue of another device, or of two in hand |
| | `Reachable` | `ReachInv`: from the answer to the end of a fetch its device has a name; a worker that waits for the lock while an event of its device does is behind it; once it has released there is nothing parked for the device, and nothing that waits to be. The property speaks of cached details only, and a worker is on its way to one before |

`Only`, `StoredAll` and `Waited` are recursive functions where `SelectSeq` or a RECURSIVE operator
would be shorter: TLAPS cannot expand these. What the functions compute is proved by induction with a
set in place of the predicate (`NumberInduction`, from the well-foundedness of `<`), because the
library's induction theorems take an operator as parameter, which the provers cannot instantiate.

Only model-checked: every liveness property, which the prover does not handle.

## What the runs refute

Four statements of the repository do not hold of the code. `PROJECT.json` has each under
`findings` with the lines quoted.

1. `slow_handler`: the monitor says that no data was received. It measures when a frame was last
   *handled* (`websocket.py:122`): a frame whose InfluxDB write hangs makes it drop a connection
   on which data arrives, and cancel the write.
2. `full_queue_shutdown`: `shutdown()` sets its flag and then waits for room in the queue for its
   stop signals (`client.py:1031`). The workers see the flag, end, and make no room: the process
   hangs until a signal comes, or, if it was a signal that asked for the shutdown, until it is
   killed.
3. `api_spacing`: `last_api_call_time` is read before the sleep, set after it and not read again
   (`client.py:574-579`). In the trace a request has slept out the interval; before it runs,
   another reads the same old value, finds the interval passed and is sent at once; then the first
   is sent too. Requests that sleep together leave together in the same way, as many as the semaphore
   admits. What does hold is `BurstIsBounded`.
4. `slow_write`: `close()` cancels a write that takes longer than it waits (`influxdb.py:1036`),
   and its readings are counted nowhere; `INFLUXDB_TIMEOUT` is ten times that wait by default.
   What does hold, for all settings, is `OnlySlowWritesAreCancelled`: such a write has lasted longer
   than `QUEUE_BATCH_TIMEOUT`, and a batch that is still being collected is never cancelled.

Some properties hold with an exception, which their comments name and which is as much a result:

- `NothingRunsAfterClose`: a signal that cancels a failed data task while its `shutdown()` waits for
  room skips the gather, so workers may still run when the storage is closed.
- `ExitIsClean`: a first login that fails (`main.py:206`) closes the collector's client but leaves
  the storage open, with its queue processor; the process exits with 1 all the same. And `main()`
  swallows the exception of a storage whose `close()` raises (`main.py:326`): its client stays open too
  (`storage` is "abandoned"), with whatever exit code, 0 included.
- `LimitMeansLoginTried` needs `PacingAssumption`: the waits after the first `Limit - 1` rejections
  outlast `AUTH_MIN_REAUTH_AGE`. The defaults do (5 + 10 + 20 + 40 s against 60 s). The first wait
  counts as no longer than the cap, although it may be configured longer (60 against 10 s): after a
  network error the backoff starts from the cap (`websocket.py:280`). `config.py`
  also allows settings that do not (a limit of 1, or a short delay cap with a long minimum age);
  then the process can be given up for a token that nobody has tried to replace, and the
  comment at `config.py:269-275` is right only because it excepts young tokens.
- `CachedMeansDealtWith`: null for `always_on.devices` raises after the write (`influxdb.py:743`),
  and the handler of that exception returns True although the write may have failed. The other way
  round, a detail that line protocol cannot carry is not cached and is fetched again on every event,
  though the docstring at `influxdb.py:555` counts it as dealt with.
- `BadItemCostsItself`: a timeline item that is no object raises out of the loop (`client.py:844`) and
  takes the items after it along; a device id that is a list, or a current that is no number,
  loses the whole realtime frame (`influxdb.py:440`, `498`).
- `WrittenItemsAreLookedUp`: a reader that is cancelled in the write of an event does not ask for its
  detail.
- `ReceivingStaysHealthy`: an interval that is no whole number falls back to 15 s without being
  clamped (`config.py:486`, the fallback at 62), so with a max age under 30 s a receiving collector
  flaps; a write so slow that the reader is cancelled takes the touch with it; a clock set forward
  or a failing touch shows until the next one.
- `HealthyMeansUsable`: a clock set back after the touch prolongs a healthy answer by the step, and
  the touch comes up to `INFLUXDB_TIMEOUT` after the reading was received. It is that timeout, on the
  monotonic clock, which bounds the write: the monitor looks only now and then and by the wall
  clock, so the model lets it cut a write off at any time or not at all.
- `EachReadingAccounted`: readings lost to an exception in their batch or cancelled with their write
  are histories of the model; the code logs the event and counts none of them.
- `EachEventInOnePlace` counts completed writes: a worker that is cancelled in the write of released
  events leaves them parked, and the flush writes them again.
- `NumbersKeepTheirField`: an improper value (a string for watts) that comes first in a shard has
  the proper ones refused until the next; REST usage is written as it comes and is not covered.
- `ParkedIsReachable`: a device whose detail carries no name is cached all the same
  (`client.py:870`), so its parked events wait until the detail expires; a device whose name was
  evicted (`influxdb.py:147`) while its detail is cached is in the same position; and so is one
  whose id is no string, as no point can be made of its parked events.
- `ShutdownFlushes`: a `close()` that raises over the remaining readings (`influxdb.py:1055`) or over
  a parked event of which no point can be made (`influxdb.py:1067`) writes none of the parked events.
- `CloseReleasesClient`: a remaining reading that raises (`influxdb.py:1055`) leaves `close()`
  before the part that releases the client.
- `WebSocketHandler!TypeOK`: the first delay may be longer than the cap, if it is configured so
  (`websocket.py:203`, capped only when it is doubled, at 280).
- A cancellation that arrives in the gather of `finally` (`websocket.py:268`) skips the close of the
  socket; the model shows it, and no promise of the code is about it.

## Not modelled

- Settings other than the heartbeat's: each is parsed and clamped on its own by the same helper and
  enters the models as a constant, with its range as an assumption.
- The individual checks of `validate_environment`: `Validate` passes or fails.
- Activity counters, log texts, error hints of `_log_write_error`: only a log reads them.
- Logging and redaction, file names, time formatting, the privacy filters: functions from text to
  text, whose correctness is a matter of characters and regular expressions, without state.
- The debug exports: off by default, and nothing reads them back.
- A stepped wall clock outside `Frames`: `last_api_call_time`, the deadline of a batch of readings and
  the age of details are wall-clock times too, and `ApiPacing`, `DeviceReadings` and `DeviceCache`
  have an even clock. A backward step makes a request or a batch wait for its length.
- The retries inside the InfluxDB client and the WebSocket library: external.
- Where the heartbeat file lives (`default_heartbeat_file`): one path for both processes.
- The fake server, containers, dashboards: no logic of the collector.

## Plan

What is left:

1. `FeedSession` as an implementation of `LoginGate`, as `SenseAuth` is one.
2. Safety halves of the liveness properties: that what must eventually happen stays possible, as far
   as it can be said without ENABLED.
