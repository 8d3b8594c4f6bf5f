---------------------------- MODULE DeviceReadings ----------------------------
(***************************************************************************)
(* The always-on readings of app/storage/influxdb.py: DeviceDataQueue, the *)
(* task that collects its readings into batches and writes them, and       *)
(* close(), which waits for that task, cancels it when it takes too long,  *)
(* and writes what the queue still holds.  Readings are counted; whether   *)
(* one has a name or can be written shows when it is processed.  A step    *)
(* runs from one await that suspends to the next; get() of a queue that    *)
(* is not empty does not suspend.                                          *)
(***************************************************************************)
EXTENDS Integers, FiniteSetsExt

CONSTANTS
    QueueSize,     \* config.QUEUE_SIZE_DEVICE
    BatchSize,     \* config.QUEUE_BATCH_SIZE
    GetTimeout,    \* config.QUEUE_TIMEOUT, in ticks
    BatchTimeout,  \* config.QUEUE_BATCH_TIMEOUT
    WriteTimeout,  \* config.INFLUXDB_TIMEOUT
    ErrorSleep,    \* config.API_WORKER_ERROR_SLEEP
    MayRaise,      \* a reading may carry an id that no dict can look up
    MaxReadings    \* bound: readings that come

ASSUME ReadingsAssumption ==
    /\ {QueueSize, BatchSize, GetTimeout, BatchTimeout, WriteTimeout, ErrorSleep}
         \subseteq Nat \ {0}
    /\ MayRaise \in BOOLEAN /\ MaxReadings \in Nat

VARIABLES
    queue,      \* how many readings device_queue holds
    batch,      \* how many the processor has collected
    age,        \* time since it began to collect (batch_start)
    proc,       \* where the processor awaits
    timer,      \* the time its await has left
    closer,     \* where close() awaits; "no" before it is called
    closeTimer, \* the time that await has left
    rest,       \* remaining_items, the readings close() took from the queue
    sent,       \* the points of the write under way, the processor's or close()'s
    clientOpen, \* the client's session is open
    \* --- histories ---
    accepted,   \* readings that found room in the queue
    skipped,    \* readings dropped for want of a name
    spoiled,    \* readings of batches dropped by an exception
    cancelled,  \* readings in hand when close() cancelled the processor
    stats       \* write_stats

processor == <<batch, age, proc, timer>>
closing == <<closer, closeTimer, rest, clientOpen>>
vars == <<queue, processor, closing, sent, accepted, skipped, spoiled, cancelled, stats>>

isShuttingDown == closer # "no"

\* A variant: the get() under way is not allowed for.
CloseWaitShort == BatchTimeout

CloseWait == GetTimeout + BatchTimeout + 1

Init ==
    /\ queue = 0 /\ batch = 0 /\ age = 0 /\ proc = "getting" /\ timer = GetTimeout
    /\ closer = "no" /\ closeTimer = 0 /\ rest = 0 /\ sent = 0 /\ clientOpen = TRUE
    /\ accepted = 0 /\ skipped = 0 /\ spoiled = 0 /\ cancelled = 0
    /\ stats = [successful |-> 0, failed |-> 0]

\* add_device_data: a full queue drops the reading.  Nothing feeds a storage that closes.
AddDeviceData ==
    /\ ~isShuttingDown /\ accepted < MaxReadings /\ queue < QueueSize
    /\ queue' = queue + 1 /\ accepted' = accepted + 1
    /\ UNCHANGED <<processor, closing, sent, skipped, spoiled, cancelled, stats>>

(***************************************************************************)
(* _process_device_batch and write_points                                  *)
(***************************************************************************)

\* A variant: a point that cannot be written is not counted.
SortedUncounted(n) ==
    \E unnamed \in 0..n : \E unwritable \in 0..(n - unnamed) :
        /\ skipped' = skipped + unnamed /\ sent' = n - unnamed - unwritable
        /\ UNCHANGED stats

\* Of n readings some have no cached name and some a value that cannot be
\* serialised; the others are sent.
Sorted(n) ==
    \E unnamed \in 0..n : \E unwritable \in 0..(n - unnamed) :
        /\ skipped' = skipped + unnamed
        /\ stats' = [stats EXCEPT !.failed = @ + unwritable]
        /\ sent' = n - unnamed - unwritable

\* A variant: the count a partial write reports is believed as it is.
LossesUnbounded(n) == {0, n} \cup 1..(n + 1)

\* What a write of n points lost: nothing, what a partial write reports, or all.
Losses(n) == {0, n} \cup {Min({reported, n}) : reported \in 1..(n + 1)}

WriteEnds ==
    \E lost \in Losses(sent) :
        /\ stats' = [successful |-> stats.successful + sent - lost,
                     failed |-> stats.failed + lost]
        /\ sent' = 0

(***************************************************************************)
(* process_device_queue                                                    *)
(***************************************************************************)

\* The processor has n readings to process.  It awaits the write, or yields.
ProcessBatch(n) ==
    \/ /\ Sorted(n)
       /\ IF sent' > 0 THEN proc' = "writing" /\ timer' = WriteTimeout
                       ELSE proc' = "yielding" /\ timer' = 0
       /\ UNCHANGED spoiled
    \/ /\ MayRaise
       /\ spoiled' = spoiled + n
       /\ proc' = "pausing" /\ timer' = ErrorSleep
       /\ UNCHANGED <<skipped, stats, sent>>

Await == UNCHANGED <<skipped, spoiled, stats, sent>>

\* A variant: a batch has no deadline.
CollectOnUntilFull(held, since, got) ==
    LET open == ~isShuttingDown
        taken == IF open THEN Min({queue, BatchSize - held}) ELSE got
        all == held + taken
    IN /\ queue' = queue - taken
       /\ \/ /\ open /\ all < BatchSize
             /\ batch' = all /\ age' = 0
             /\ proc' = "getting" /\ timer' = GetTimeout /\ Await
          \/ /\ ~open \/ all = BatchSize
             /\ all > 0 /\ batch' = 0 /\ age' = 0
             /\ ProcessBatch(all)

\* The processor collects on: it holds `held` readings, for `since` so far, and the get
\* that has returned took `got`.  It takes what it may, without an await.
CollectOn(held, since, got) ==
    LET open == since < BatchTimeout /\ ~isShuttingDown
        taken == IF open THEN Min({queue, BatchSize - held}) ELSE got
        all == held + taken
    IN /\ queue' = queue - taken
       /\ \/ /\ open /\ all < BatchSize
             /\ batch' = all /\ age' = since
             /\ proc' = "getting" /\ timer' = GetTimeout /\ Await
          \/ /\ ~open \/ all = BatchSize
             /\ all > 0 /\ batch' = 0 /\ age' = 0
             /\ ProcessBatch(all)

\* The outer loop starts again, or ends.
NextBatch ==
    \/ isShuttingDown /\ proc' = "ended" /\ timer' = 0
       /\ batch' = 0 /\ age' = 0 /\ UNCHANGED queue /\ Await
    \/ ~isShuttingDown /\ CollectOn(0, 0, 0)

Got ==
    /\ proc = "getting" /\ queue > 0
    /\ CollectOn(batch, age, 1)
    /\ UNCHANGED <<closing, accepted, cancelled>>

GetTimedOut ==
    /\ proc = "getting" /\ timer = 0
    /\ IF batch = 0 /\ (age >= BatchTimeout \/ isShuttingDown)
       THEN NextBatch ELSE CollectOn(batch, age, 0)
    /\ UNCHANGED <<closing, accepted, cancelled>>

BatchWritten ==
    /\ proc = "writing" /\ WriteEnds
    /\ proc' = "yielding" /\ timer' = 0
    /\ UNCHANGED <<queue, batch, age, closing, accepted, skipped, spoiled, cancelled>>

Resume ==
    /\ proc \in {"yielding", "pausing"} /\ timer = 0
    /\ NextBatch
    /\ UNCHANGED <<closing, accepted, cancelled>>

(***************************************************************************)
(* close                                                                   *)
(***************************************************************************)
CloseStarts ==
    /\ closer = "no"
    /\ closer' = "waiting" /\ closeTimer' = CloseWait
    /\ UNCHANGED <<queue, processor, rest, sent, clientOpen>>
    /\ UNCHANGED <<accepted, skipped, spoiled, cancelled, stats>>

\* The queue is emptied at once; the last get() waits its time out.
Drain ==
    /\ rest' = queue /\ queue' = 0
    /\ closer' = "draining" /\ closeTimer' = GetTimeout

ProcessorEnded ==
    /\ closer = "waiting" /\ proc = "ended"
    /\ Drain
    /\ UNCHANGED <<processor, sent, clientOpen, accepted, skipped, spoiled, cancelled, stats>>

\* Too slow: the processor is cancelled, with what it has in hand.
CancelProcessor ==
    /\ closer = "waiting" /\ proc # "ended" /\ closeTimer = 0
    /\ cancelled' = cancelled + batch + sent
    /\ batch' = 0 /\ age' = 0 /\ sent' = 0 /\ proc' = "ended" /\ timer' = 0
    /\ Drain
    /\ UNCHANGED <<clientOpen, accepted, skipped, spoiled, stats>>

\* The remaining readings are processed, outside the try of the flush.
ProcessRest ==
    /\ closer = "draining" /\ closeTimer = 0 /\ rest > 0
    /\ rest' = 0
    /\ \/ /\ Sorted(rest)
          /\ IF sent' > 0 THEN closer' = "writing" /\ closeTimer' = WriteTimeout
                          ELSE closer' = "flushing" /\ closeTimer' = 0
          /\ UNCHANGED spoiled
       \/ /\ MayRaise
          /\ spoiled' = spoiled + rest /\ closer' = "raised" /\ closeTimer' = 0
          /\ UNCHANGED <<skipped, stats, sent>>
    /\ UNCHANGED <<queue, processor, clientOpen, accepted, cancelled>>

\* A variant: close() returns early when nothing remains in the queue.
NothingRemainsReturns ==
    /\ closer = "draining" /\ closeTimer = 0 /\ rest = 0
    /\ closer' = "closed"
    /\ UNCHANGED <<queue, processor, closeTimer, rest, sent, clientOpen>>
    /\ UNCHANGED <<accepted, skipped, spoiled, cancelled, stats>>

NothingRemains ==
    /\ closer = "draining" /\ closeTimer = 0 /\ rest = 0
    /\ closer' = "flushing"
    /\ UNCHANGED <<queue, processor, closeTimer, rest, sent, clientOpen>>
    /\ UNCHANGED <<accepted, skipped, spoiled, cancelled, stats>>

RestWritten ==
    /\ closer = "writing" /\ WriteEnds
    /\ closer' = "flushing" /\ closeTimer' = 0
    /\ UNCHANGED <<queue, processor, rest, clientOpen, accepted, skipped, spoiled, cancelled>>

\* The flush of the timeline events (TimelineEvents) ends, and _close_client follows.
CloseClient ==
    /\ closer = "flushing"
    /\ closer' = "closed" /\ clientOpen' = FALSE
    /\ UNCHANGED <<queue, processor, closeTimer, rest, sent>>
    /\ UNCHANGED <<accepted, skipped, spoiled, cancelled, stats>>

(***************************************************************************)
(* Time passes when nothing is ready to run.                               *)
(***************************************************************************)
Less(t) == Max({t - 1, 0})

SomethingReady ==
    \/ proc = "getting" /\ queue > 0
    \/ proc # "ended" /\ timer = 0
    \/ closer = "waiting" /\ proc = "ended"
    \/ closer \in {"waiting", "draining", "writing"} /\ closeTimer = 0
    \/ closer = "flushing"

Tick ==
    /\ ~SomethingReady /\ closer \notin {"closed", "raised"}
    /\ timer' = Less(timer) /\ closeTimer' = Less(closeTimer)
    /\ age' = IF proc = "getting" THEN age + 1 ELSE age
    /\ UNCHANGED <<queue, batch, proc, closer, rest, sent, clientOpen>>
    /\ UNCHANGED <<accepted, skipped, spoiled, cancelled, stats>>

ProcessorStep == Got \/ GetTimedOut \/ BatchWritten \/ Resume
CloseStep ==
    \/ ProcessorEnded \/ CancelProcessor
    \/ ProcessRest \/ NothingRemains \/ RestWritten \/ CloseClient
LoopTurn == ProcessorStep \/ CloseStep \/ Tick

Next == AddDeviceData \/ CloseStarts \/ LoopTurn

Spec == Init /\ [][Next]_vars

\* The event loop runs what is ready and lets time pass.
FairSpec == Spec /\ WF_vars(LoopTurn)

-----------------------------------------------------------------------------
(***************************************************************************)
(* Properties                                                              *)
(***************************************************************************)
Modes == {"getting", "writing", "yielding", "pausing", "ended"}

\* Types, with the two bounds the code keeps by its own arithmetic: a batch never outgrows
\* QUEUE_BATCH_SIZE, and a partial write that reports more points lost than were sent does
\* not turn the count of written points negative (_dropped_count).
TypeOK ==
    /\ queue \in 0..QueueSize /\ batch \in 0..BatchSize
    /\ proc \in Modes /\ {timer, closeTimer, rest, sent, age} \subseteq Nat
    /\ closer \in {"no", "waiting", "draining", "writing", "flushing", "closed", "raised"}
    /\ clientOpen \in BOOLEAN
    /\ {accepted, skipped, spoiled, cancelled} \subseteq Nat
    /\ stats \in [successful : Nat, failed : Nat]

\* Every reading the queue accepted is in one place, or in write_stats, or was dropped for one
\* of three reasons: no cached name, an exception in the batch it was collected into, close()
\* cancelling the processor.  No get() that times out and no partial write loses one and none
\* is counted twice.  The code logs the last two reasons and keeps no count of them: `spoiled`
\* and `cancelled` are histories of the model.
EachReadingAccounted ==
    accepted = queue + batch + rest + sent
                 + skipped + spoiled + cancelled + stats.successful + stats.failed

\* What the docstring of close() says, "ensuring all data is written": the processor is never
\* cancelled with readings in hand.  It does not hold of a write slower than the wait.
NothingIsCancelled == cancelled = 0

\* What close() does keep to: readings are cancelled only in a write that has already taken
\* longer than QUEUE_BATCH_TIMEOUT, never in a batch still being collected, however late the
\* get() under way returned.
OnlySlowWritesAreCancelled ==
    [][cancelled' # cancelled => proc = "writing" /\ WriteTimeout - timer > BatchTimeout]_vars

\* A batch is written though it never fills up: with no more readings to come the queue, the
\* batch and the write all become empty, again and again.
ReadingsSettle == []<>(queue = 0 /\ batch = 0 /\ sent = 0 /\ rest = 0)

\* close() comes to an end, and with the client's session released; the one exception is an
\* exception raised by the readings that remain, which leaves close() before its `finally`.
CloseReleasesClient == isShuttingDown ~> (~clientOpen \/ closer = "raised")
=============================================================================
