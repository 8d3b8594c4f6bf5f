--------------------------- MODULE CollectorTasks ---------------------------
(***************************************************************************)
(* How the process starts, runs and stops: main(), create_collector and    *)
(* run_collector_tasks of app/main.py, the data task (collect_sense_data,  *)
(* ending in shutdown()) and the API workers of app/collector/client.py    *)
(* with their bounded queue.  A step runs from one await to the next;      *)
(* `put` on a queue with room does not suspend, so shutdown() fills the    *)
(* room it finds at once.                                                  *)
(***************************************************************************)
EXTENDS Integers, Sequences, FiniteSets

CONSTANTS
    Workers,      \* the tasks that collect_sense_data starts (API_WORKER_COUNT)
    QueueSize,    \* config.QUEUE_SIZE_API
    MaxBacklog    \* bound: the feed never queues more than this many fetches

ASSUME TasksAssumption ==
    /\ IsFiniteSet(Workers)
    /\ QueueSize \in Nat \ {0}
    /\ MaxBacklog \in 0..QueueSize

VARIABLES
    main,         \* where main() is, and asyncio's Runner after it
    storage,      \* the InfluxDB client
    exitCode,     \* what the process is going to exit with
    data,         \* where collect_sense_data is
    stopsLeft,    \* the stop signals shutdown() has still to put
    closing,      \* is_shutting_down of the collector
    signalled,    \* shutdown_event is set
    queue,        \* api_call_queue: fetches and stop signals (None)
    worker        \* where each API worker is

process == <<main, storage, exitCode>>
vars == <<main, storage, exitCode, data, stopsLeft, closing, signalled, queue, worker>>

Live(w) == worker[w] \in {"waiting", "fetching", "pausing"}

Init ==
    /\ main = "validating"
    /\ storage = "none"
    /\ exitCode = 0
    /\ data = "none"
    /\ stopsLeft = 0
    /\ closing = FALSE
    /\ signalled = FALSE
    /\ queue = <<>>
    /\ worker = [w \in Workers |-> "none"]

-----------------------------------------------------------------------------
(* main() and create_collector, until the tasks run *)

\* An exception leaves main(): ValueError, SystemExit, or the exit of its handler.
\* Only a collector and a storage that create_collector has returned are closed.
FailStartup ==
    /\ main' = "closed"
    /\ exitCode' = 1
    /\ UNCHANGED data

\* validate_environment, before a signal handler or a client is there.
Validate ==
    /\ main = "validating"
    /\ \/ main' = "connecting" /\ UNCHANGED <<exitCode, data>>
       \/ FailStartup
    /\ UNCHANGED <<storage, stopsLeft, closing, signalled, queue, worker>>

\* connect() of the storage: a server that does not answer the ping ends the
\* process, with the client closed.
Connect ==
    /\ main = "connecting"
    /\ \/ main' = "authenticating" /\ storage' = "open" /\ UNCHANGED <<exitCode, data>>
       \/ FailStartup /\ storage' = "closed"
    /\ UNCHANGED <<stopsLeft, closing, signalled, queue, worker>>

\* The first login.  The data task starts its workers before it first waits.
Authenticate ==
    /\ main = "authenticating"
    /\ \/ /\ main' = "waiting"
          /\ data' = "running"
          /\ worker' = [w \in Workers |-> "waiting"]
          /\ UNCHANGED exitCode
       \/ FailStartup /\ UNCHANGED worker
    /\ UNCHANGED <<storage, stopsLeft, closing, signalled, queue>>

-----------------------------------------------------------------------------
(* The feed and the workers *)

\* put_nowait of a device to fetch; a full queue drops it.
Enqueue ==
    /\ data = "running"
    /\ Len(queue) < MaxBacklog
    /\ queue' = Append(queue, "fetch")
    /\ UNCHANGED <<process, data, stopsLeft, closing, signalled, worker>>

\* `while not self.is_shutting_down`
LoopsOn == IF closing THEN "ended" ELSE "waiting"

\* A stop signal ends the worker.  A fetch starts unless the device is cached.
Take(w) ==
    /\ worker[w] = "waiting"
    /\ queue # <<>>
    /\ queue' = Tail(queue)
    /\ \E next \in IF Head(queue) = "stop" THEN {"ended"} ELSE {"fetching", LoopsOn} :
          worker' = [worker EXCEPT ![w] = next]
    /\ UNCHANGED <<process, data, stopsLeft, closing, signalled>>

\* QUEUE_TIMEOUT passes with nothing to take.
GetTimesOut(w) ==
    /\ worker[w] = "waiting"
    /\ queue = <<>>
    /\ worker' = [worker EXCEPT ![w] = LoopsOn]
    /\ UNCHANGED <<process, data, stopsLeft, closing, signalled, queue>>

\* Faulty: an exception ends the worker.
AfterError == "ended"

\* The error is logged and the worker sleeps for API_WORKER_ERROR_SLEEP.
AfterFetchError == "pausing"

FetchEnds(w) ==
    /\ worker[w] = "fetching"
    /\ worker' \in {[worker EXCEPT ![w] = next] : next \in {LoopsOn, AfterFetchError}}
    /\ UNCHANGED <<process, data, stopsLeft, closing, signalled, queue>>

PauseEnds(w) ==
    /\ worker[w] = "pausing"
    /\ worker' = [worker EXCEPT ![w] = LoopsOn]
    /\ UNCHANGED <<process, data, stopsLeft, closing, signalled, queue>>

-----------------------------------------------------------------------------
(* shutdown() of the collector *)

\* Faulty: the bound of the queue is overlooked.
RoomUnbounded == Cardinality(Workers)

Room == QueueSize - Len(queue)

\* Put as many of the n stop signals as there is room for, then wait: for room,
\* or for the workers.
PutStops(n) ==
    LET put == IF n <= Room THEN n ELSE Room
    IN  /\ queue' = queue \o [i \in 1..put |-> "stop"]
        /\ stopsLeft' = n - put
        /\ data' = IF put = n THEN "gathering" ELSE "putting"

\* One for each worker.
Stops == Cardinality(Workers)

\* The flag is set before the stop signals are put.
BeginShutdown ==
    /\ closing' = TRUE
    /\ PutStops(Stops)

\* The feed or a login has failed: `finally` shuts the collector down.
DataFails ==
    /\ data = "running"
    /\ BeginShutdown
    /\ UNCHANGED <<process, signalled, worker>>

PutMoreStops ==
    /\ data = "putting"
    /\ Len(queue) < QueueSize
    /\ PutStops(stopsLeft)
    /\ UNCHANGED <<process, closing, signalled, worker>>

\* Faulty: the workers are told to stop but not awaited.
WorkersGatheredNot == TRUE

\* Faulty: the queue has to drain as well.
WorkersGatheredQueueDrained == queue = <<>> /\ \A w \in Workers : ~Live(w)

WorkersGathered == \A w \in Workers : ~Live(w)

\* The workers have ended; the cache is cleared and the client closed.
Gathered ==
    /\ data = "gathering"
    /\ WorkersGathered
    /\ data' = "ended"
    /\ UNCHANGED <<process, stopsLeft, closing, signalled, queue, worker>>

-----------------------------------------------------------------------------
(* main() *)

\* The handler only sets the event; before it is installed a signal kills.
SignalArrives ==
    /\ ~signalled
    /\ main \in {"connecting", "authenticating", "waiting", "draining"}
    /\ signalled' = TRUE
    /\ UNCHANGED <<process, data, stopsLeft, closing, queue, worker>>

\* Faulty: put goes on waiting for room.
AfterCancelledPutNot == "putting"

\* The await of put raises CancelledError, which ends the data task.
AfterCancelledPut == "ended"

\* Faulty: the failure that ended the data task is only logged.
ExitCodeSwallowed == 0

\* A data task that has ended is a failure, even if a signal came with it.
ExitCodeAtWake == IF data = "ended" THEN 1 ELSE 0

\* asyncio.wait returns: the data task is cancelled if it has not ended.  In
\* shutdown() the cancellation breaks off what it waits for, and gather hands
\* it on to the workers.
MainWakes ==
    /\ main = "waiting"
    /\ signalled \/ data = "ended"
    /\ main' = "draining"
    /\ exitCode' = ExitCodeAtWake
    /\ \/ /\ data = "running"
          /\ BeginShutdown
          /\ UNCHANGED worker
       \/ /\ data = "putting"
          /\ data' = AfterCancelledPut
          /\ UNCHANGED <<stopsLeft, closing, queue, worker>>
       \/ /\ data = "gathering"
          /\ worker' = [w \in Workers |-> "ended"]
          /\ UNCHANGED <<data, stopsLeft, closing, queue>>
       \/ /\ data = "ended"
          /\ UNCHANGED <<data, stopsLeft, closing, queue, worker>>
    /\ UNCHANGED <<storage, signalled>>

\* storage.close() releases the client, unless the write of the remaining readings raises
\* first (DeviceReadings): then the client is abandoned, open, and the exception logged.
StorageAfterCleanup == {"closed", "abandoned"}

\* The tasks are gathered; collector.close() and storage.close() follow.  Whatever they
\* raise is swallowed and changes no exit code.
MainCloses ==
    /\ main = "draining"
    /\ data = "ended"
    /\ main' = "closed"
    /\ storage' \in StorageAfterCleanup
    /\ UNCHANGED <<exitCode, data, stopsLeft, closing, signalled, queue, worker>>

\* asyncio.Runner cancels the tasks that are left, and the process exits.
RunnerCloses ==
    /\ main = "closed"
    /\ main' = "exited"
    /\ worker' = [w \in Workers |-> IF Live(w) THEN "ended" ELSE worker[w]]
    /\ UNCHANGED <<storage, exitCode, data, stopsLeft, closing, signalled, queue>>

WorkerStep(w) == Take(w) \/ GetTimesOut(w) \/ FetchEnds(w) \/ PauseEnds(w)

Next ==
    \/ Enqueue
    \/ \E w \in Workers : WorkerStep(w)
    \/ DataFails \/ PutMoreStops \/ Gathered
    \/ Validate \/ Connect \/ Authenticate
    \/ SignalArrives \/ MainWakes \/ MainCloses \/ RunnerCloses

Spec == Init /\ [][Next]_vars

(***************************************************************************)
(* Fairness: asyncio runs every ready task, and the ping, the first login  *)
(* and each fetch end, because their calls have timeouts and their retries *)
(* a limit.                                                                *)
(***************************************************************************)
Fairness ==
    /\ \A w \in Workers : WF_vars(WorkerStep(w))
    /\ WF_vars(PutMoreStops) /\ WF_vars(Gathered)
    /\ WF_vars(Validate) /\ WF_vars(Connect) /\ WF_vars(Authenticate)
    /\ WF_vars(MainWakes) /\ WF_vars(MainCloses) /\ WF_vars(RunnerCloses)

FairSpec == Spec /\ Fairness

-----------------------------------------------------------------------------
(* Properties *)

\* The tasks are in one of their states and the queue is never overfull.
TypeOK ==
    /\ main \in {"validating", "connecting", "authenticating", "waiting", "draining",
                "closed", "exited"}
    /\ storage \in {"none", "open", "closed", "abandoned"} /\ exitCode \in {0, 1}
    /\ data \in {"none", "running", "putting", "gathering", "ended"}
    /\ stopsLeft \in 0..Cardinality(Workers)
    /\ closing \in BOOLEAN /\ signalled \in BOOLEAN
    /\ queue \in Seq({"fetch", "stop"}) /\ Len(queue) <= QueueSize
    /\ worker \in [Workers -> {"none", "waiting", "fetching", "pausing", "ended"}]

\* An error in a fetch never costs a worker: a worker ends only in a shutdown.
WorkersEndByShutdown == \A w \in Workers : worker[w] = "ended" => closing

\* When main() closes the storage nothing can write to it any more: the data
\* task and every API worker have ended.  The one exception is a shutdown() that a
\* signal broke off while stop signals were still to be put.
NothingRunsAfterClose ==
    main \in {"closed", "exited"} =>
        /\ data \in {"none", "ended"}
        /\ stopsLeft = 0 => \A w \in Workers : ~Live(w)

\* "Always flush/close on the way out", and the docstring of run_collector_tasks: a
\* failure that no signal preceded makes the process exit non-zero, so that it is
\* restarted; and close() of the storage has been called at exit.  Two things leave its
\* client open.  A first login that fails: create_collector then closes the collector and
\* forgets the storage, so that it is "open" here, and the exit code is 1.  And a close()
\* that raises over the remaining readings: "abandoned", with any exit code, 0 included.
ExitIsClean ==
    main = "exited" =>
        /\ exitCode = 0 => signalled
        /\ storage = "open" => data = "none" /\ exitCode = 1

\* A failed data task whose shutdown() waits for room in the queue does not
\* outlive a signal: the cancellation ends it and the process exits.
SignalEndsBlockedShutdown ==
    (main = "waiting" /\ data = "putting" /\ signalled) ~> main = "exited"

\* A signal leads to a shutdown, unless the startup that it falls into fails; and a
\* shutdown whose stop signals find room leads to the exit of the process.
ShutdownWithRoomCompletes ==
    /\ signalled ~> (closing \/ main = "exited")
    /\ (closing /\ stopsLeft <= Room) ~> main = "exited"

\* The same with no exception: "Always flush/close on the way out" (app/main.py).
ShutdownCompletes == (signalled \/ closing) ~> main = "exited"
=============================================================================
