------------------------ MODULE CollectorTasks_proofs ------------------------
(***************************************************************************)
(* Proofs about CollectorTasks, for any number of workers, any size of     *)
(* queue and any backlog: the types, with the bound of the queue, that     *)
(* only a shutdown ends a worker, and that nothing runs once main() has    *)
(* closed the storage, unless a signal broke shutdown() off.               *)
(***************************************************************************)
EXTENDS CollectorTasks, FiniteSetTheorems, SequenceTheorems, TLAPS

\* There are finitely many workers.
LEMMA WorkersCounted == Cardinality(Workers) \in Nat
  BY TasksAssumption, FS_CardinalityType

\* shutdown() puts as many stop signals as the queue has room for, keeps count of the
\* rest, and waits for room exactly if some are left.
LEMMA PutStopsType ==
  ASSUME NEW n \in Nat, n <= Cardinality(Workers), TypeOK, PutStops(n)
  PROVE  /\ queue' \in Seq({"fetch", "stop"}) /\ Len(queue') <= QueueSize
         /\ stopsLeft' \in 0..Cardinality(Workers)
         /\ data' \in {"putting", "gathering"}
         /\ data' = "putting" => stopsLeft' > 0
<1> DEFINE put == IF n <= Room THEN n ELSE Room
           stops == [i \in 1..put |-> "stop"]
<1>1. queue \in Seq({"fetch", "stop"}) /\ Len(queue) \in Nat /\ Len(queue) <= QueueSize
  BY DEF TypeOK
<1>2. Room \in Nat /\ put \in Nat /\ put <= n /\ put <= QueueSize - Len(queue)
  BY <1>1, TasksAssumption DEF Room
<1>3. queue' = queue \o stops /\ stopsLeft' = n - put
      /\ data' = IF put = n THEN "gathering" ELSE "putting"
  BY DEF PutStops
<1>4. stops \in Seq({"fetch", "stop"}) /\ Len(stops) = put
  BY <1>2
<1>5. queue \o stops \in Seq({"fetch", "stop"}) /\ Len(queue \o stops) = Len(queue) + put
  BY <1>1, <1>4, ConcatProperties
<1>6. Len(queue') <= QueueSize
  BY <1>1, <1>2, <1>3, <1>5, TasksAssumption
<1>7. stopsLeft' \in 0..Cardinality(Workers)
  BY <1>2, <1>3, WorkersCounted
<1> QED BY <1>2, <1>3, <1>5, <1>6, <1>7

\* The first state has the types.
LEMMA InitType == Init => TypeOK
<1> SUFFICES ASSUME Init PROVE TypeOK
  OBVIOUS
<1>1. queue \in Seq({"fetch", "stop"}) /\ Len(queue) = 0
  BY DEF Init
<1>2. stopsLeft \in 0..Cardinality(Workers)
  BY WorkersCounted DEF Init
<1>3. worker \in [Workers -> {"none", "waiting", "fetching", "pausing", "ended"}]
  BY DEF Init
<1>4. Len(queue) <= QueueSize
  BY <1>1, TasksAssumption
<1>5. /\ main = "validating" /\ storage = "none" /\ exitCode = 0
      /\ data \in {"none", "running", "putting", "gathering", "ended"}
      /\ closing \in BOOLEAN /\ signalled \in BOOLEAN
  BY DEF Init
<1> QED BY <1>1, <1>2, <1>3, <1>4, <1>5 DEF TypeOK

\* The types are inductive.
LEMMA TypeStep == TypeOK /\ [Next]_vars => TypeOK'
<1> SUFFICES ASSUME TypeOK, [Next]_vars PROVE TypeOK'
  OBVIOUS
<1> USE TasksAssumption, WorkersCounted DEF TypeOK, process
<1>1. CASE Enqueue
  BY <1>1 DEF Enqueue
<1>2. ASSUME NEW w \in Workers, WorkerStep(w) PROVE TypeOK'
  <2>1. LoopsOn \in {"ended", "waiting"}
    BY DEF LoopsOn
  <2>2. CASE Take(w)
    <3>1. Tail(queue) \in Seq({"fetch", "stop"}) /\ Len(Tail(queue)) <= QueueSize
      BY <2>2 DEF Take
    <3>2. worker' \in [Workers -> {"none", "waiting", "fetching", "pausing", "ended"}]
      BY <2>1, <2>2 DEF Take
    <3> QED BY <2>2, <3>1, <3>2 DEF Take
  <2>3. CASE GetTimesOut(w)
    BY <2>1, <2>3 DEF GetTimesOut
  <2>4. CASE FetchEnds(w)
    BY <2>1, <2>4 DEF FetchEnds, AfterFetchError
  <2>5. CASE PauseEnds(w)
    BY <2>1, <2>5 DEF PauseEnds
  <2> QED BY <1>2, <2>2, <2>3, <2>4, <2>5 DEF WorkerStep
<1>3. CASE DataFails
  BY <1>3, PutStopsType DEF DataFails, BeginShutdown, Stops
<1>4. CASE PutMoreStops
  BY <1>4, PutStopsType DEF PutMoreStops
<1>5. CASE Gathered
  BY <1>5 DEF Gathered
<1>6. CASE SignalArrives
  BY <1>6 DEF SignalArrives
<1>7. CASE MainWakes
  <2>1. CASE data = "running" /\ BeginShutdown /\ UNCHANGED worker
    BY <1>7, <2>1, PutStopsType DEF MainWakes, BeginShutdown, Stops, ExitCodeAtWake
  <2>2. CASE data \in {"putting", "gathering", "ended"}
    BY <1>7, <2>2 DEF MainWakes, AfterCancelledPut, ExitCodeAtWake
  <2> QED BY <1>7, <2>1, <2>2 DEF MainWakes
<1>8. CASE MainCloses
  BY <1>8 DEF MainCloses, StorageAfterCleanup
<1>9. CASE RunnerCloses
  BY <1>9 DEF RunnerCloses
<1>10. CASE Validate
  BY <1>10 DEF Validate, FailStartup
<1>11. CASE Connect
  BY <1>11 DEF Connect, FailStartup
<1>12. CASE Authenticate
  BY <1>12 DEF Authenticate, FailStartup
<1>13. CASE UNCHANGED vars
  BY <1>13 DEF vars
<1> QED BY <1>1, <1>2, <1>3, <1>4, <1>5, <1>6, <1>7, <1>8, <1>9, <1>10, <1>11, <1>12, <1>13 DEF Next

\* The types hold throughout: above all, api_call_queue never holds more than
\* QUEUE_SIZE_API items, the stop signals of shutdown() included.
THEOREM TypeCorrect == Spec => []TypeOK
  BY InitType, TypeStep, PTL DEF Spec

-----------------------------------------------------------------------------
(* Workers end in a shutdown only, and before the storage closes *)

\* The places of main() before the tasks run.
Starting == {"validating", "connecting", "authenticating"}

\* How far the process has come.  Until the tasks run there is nothing to end.  A
\* shutdown waits for room exactly while stop signals are left, so one that a signal
\* broke off there shows by them; one that ended with none left has gathered the
\* workers.  main() closes after it.
EndInv ==
    /\ main \in Starting => data = "none" /\ ~closing
    /\ main \in {"waiting", "draining"} => data # "none"
    /\ main \in {"closed", "exited"} => data \in {"none", "ended"}
    /\ data = "none" => stopsLeft = 0 /\ \A w \in Workers : worker[w] = "none"
    /\ data = "putting" => stopsLeft > 0
    /\ data = "running" => ~closing
    /\ data \in {"putting", "gathering", "ended"} => closing
    /\ data = "ended" /\ stopsLeft = 0 => \A w \in Workers : ~Live(w)
    /\ \A w \in Workers : worker[w] = "ended" => closing
    /\ \A i \in 1..Len(queue) : queue[i] = "stop" => closing

\* A step of a worker brings no worker back, and ends one only in a shutdown.
LEMMA WorkerEnds ==
  ASSUME TypeOK, EndInv, NEW w \in Workers, WorkerStep(w)
  PROVE  /\ UNCHANGED <<main, data, stopsLeft, closing>>
         /\ Live(w)
         /\ \A v \in Workers : ~Live(v) => worker'[v] = worker[v]
         /\ \A v \in Workers : worker'[v] = "ended" => closing
         /\ \A i \in 1..Len(queue') : queue'[i] = "stop" => closing
<1>1. worker \in [Workers -> {"none", "waiting", "fetching", "pausing", "ended"}]
      /\ queue \in Seq({"fetch", "stop"})
  BY DEF TypeOK
<1>2. Live(w) /\ UNCHANGED <<main, data, stopsLeft, closing>>
  BY DEF WorkerStep, Take, GetTimesOut, FetchEnds, PauseEnds, Live, process
<1>3. LoopsOn = "ended" => closing
  BY DEF LoopsOn
<1>4. PICK next : worker' = [worker EXCEPT ![w] = next] /\ (next = "ended" => closing)
  <2>1. CASE Take(w)
    <3>1. PICK next \in IF Head(queue) = "stop" THEN {"ended"} ELSE {"fetching", LoopsOn} :
            worker' = [worker EXCEPT ![w] = next]
      BY <2>1 DEF Take
    <3>2. Head(queue) = "stop" => closing
      BY <1>1, <2>1 DEF Take, EndInv
    <3> QED BY <1>3, <3>1, <3>2
  <2>2. CASE GetTimesOut(w)
    BY <1>3, <2>2 DEF GetTimesOut
  <2>3. CASE FetchEnds(w)
    BY <1>3, <2>3 DEF FetchEnds, AfterFetchError
  <2>4. CASE PauseEnds(w)
    BY <1>3, <2>4 DEF PauseEnds
  <2> QED BY <2>1, <2>2, <2>3, <2>4 DEF WorkerStep
<1>5. \A v \in Workers : v # w => worker'[v] = worker[v]
  BY <1>1, <1>4
<1>6. worker'[w] = next
  BY <1>1, <1>4
<1>7. \A v \in Workers : worker'[v] = "ended" => closing
  BY <1>4, <1>5, <1>6 DEF EndInv
<1>8. \A i \in 1..Len(queue') : queue'[i] = "stop" => closing
  <2>1. CASE Take(w)
    <3>1. queue' = Tail(queue) /\ queue # <<>>
      BY <2>1 DEF Take
    <3>2. Len(queue') = Len(queue) - 1 /\ \A i \in 1..Len(queue') : queue'[i] = queue[i + 1]
      BY <1>1, <3>1
    <3>3. \A i \in 1..Len(queue') : i + 1 \in 1..Len(queue)
      BY <1>1, <3>2
    <3> QED BY <3>2, <3>3 DEF EndInv
  <2>2. CASE ~Take(w)
    BY <2>2 DEF WorkerStep, GetTimesOut, FetchEnds, PauseEnds, EndInv
  <2> QED BY <2>1, <2>2
<1>9. \A v \in Workers : ~Live(v) => worker'[v] = worker[v]
  BY <1>2, <1>5
<1> QED BY <1>2, <1>7, <1>8, <1>9

\* EndInv is inductive, given the types.
LEMMA EndStep == TypeOK /\ EndInv /\ [Next]_vars => EndInv'
<1> SUFFICES ASSUME TypeOK, EndInv, [Next]_vars PROVE EndInv'
  OBVIOUS
<1> USE DEF process, Starting
<1>1. CASE Enqueue
  <2>1. queue' = Append(queue, "fetch") /\ queue \in Seq({"fetch", "stop"})
    BY <1>1 DEF Enqueue, TypeOK
  <2>2. \A i \in 1..Len(queue') : queue'[i] = "stop" => i \in 1..Len(queue) /\ queue[i] = "stop"
    BY <2>1
  <2> QED BY <1>1, <2>2 DEF Enqueue, EndInv, Live
<1>2. ASSUME NEW w \in Workers, WorkerStep(w) PROVE EndInv'
  <2>1. data # "none"
    BY <1>2, WorkerEnds DEF EndInv, Live
  <2>2. \A v \in Workers : ~Live(v) => ~Live(v)'
    BY <1>2, WorkerEnds DEF Live
  <2> QED BY <1>2, <2>1, <2>2, WorkerEnds DEF EndInv
<1>3. CASE DataFails
  BY <1>3, PutStopsType, WorkersCounted DEF DataFails, BeginShutdown, Stops, EndInv, Live
<1>4. CASE PutMoreStops
  <2>1. stopsLeft \in Nat /\ stopsLeft <= Cardinality(Workers)
    BY WorkersCounted DEF TypeOK
  <2> QED BY <1>4, <2>1, PutStopsType DEF PutMoreStops, EndInv, Live
<1>5. CASE Gathered
  BY <1>5 DEF Gathered, WorkersGathered, EndInv, Live
<1>6. CASE SignalArrives
  BY <1>6 DEF SignalArrives, EndInv, Live
<1>7. CASE MainWakes
  <2>1. CASE data = "running" /\ BeginShutdown /\ UNCHANGED worker
    BY <1>7, <2>1, PutStopsType, WorkersCounted DEF MainWakes, BeginShutdown, Stops, EndInv, Live
  <2>2. CASE data = "putting"
    BY <1>7, <2>2 DEF MainWakes, AfterCancelledPut, EndInv, Live, TypeOK
  <2>3. CASE data \in {"gathering", "ended"}
    BY <1>7, <2>3 DEF MainWakes, EndInv, Live
  <2> QED BY <1>7, <2>1, <2>2, <2>3 DEF MainWakes
<1>8. CASE MainCloses
  BY <1>8 DEF MainCloses, EndInv, Live
<1>9. CASE RunnerCloses
  <2>1. \A w \in Workers : worker'[w] = IF Live(w) THEN "ended" ELSE worker[w]
    BY <1>9 DEF RunnerCloses
  <2>2. \A w \in Workers : Live(w) => closing
    BY <1>9 DEF RunnerCloses, EndInv, Live
  <2> QED BY <1>9, <2>1, <2>2 DEF RunnerCloses, EndInv, Live
<1>10. CASE Validate
  BY <1>10 DEF Validate, FailStartup, EndInv, Live
<1>11. CASE Connect
  BY <1>11 DEF Connect, FailStartup, EndInv, Live
<1>12. CASE Authenticate
  <2>1. CASE FailStartup /\ UNCHANGED worker
    BY <1>12, <2>1 DEF Authenticate, FailStartup, EndInv, Live
  <2>2. CASE data' = "running"
    <3>1. /\ main' = "waiting" /\ ~closing /\ ~closing' /\ stopsLeft' = 0
          /\ UNCHANGED queue /\ worker' = [w \in Workers |-> "waiting"]
      BY <1>12, <2>2 DEF Authenticate, FailStartup, EndInv
    <3> QED BY <2>2, <3>1 DEF EndInv, Live
  <2> QED BY <1>12, <2>1, <2>2 DEF Authenticate
<1>13. CASE UNCHANGED vars
  BY <1>13 DEF vars, EndInv, Live
<1> QED
  BY <1>1, <1>2, <1>3, <1>4, <1>5, <1>6, <1>7, <1>8, <1>9, <1>10, <1>11, <1>12, <1>13 DEF Next

\* Types and EndInv hold throughout.
LEMMA EndInvariant == Spec => [](TypeOK /\ EndInv)
<1>1. Init => EndInv
  BY DEF Init, EndInv, Live, Starting
<1> QED BY <1>1, InitType, TypeStep, EndStep, PTL DEF Spec

\* An error in a fetch never costs a worker, however many there are.
THEOREM WorkersStay == Spec => []WorkersEndByShutdown
<1>1. EndInv => WorkersEndByShutdown
  BY DEF EndInv, WorkersEndByShutdown
<1> QED BY <1>1, EndInvariant, PTL

\* The storage is closed under no running worker, with the one exception that
\* NothingRunsAfterClose names: for any queue and any backlog.
THEOREM ClosedLast == Spec => []NothingRunsAfterClose
<1>1. EndInv => NothingRunsAfterClose
  BY DEF EndInv, NothingRunsAfterClose, Live
<1> QED BY <1>1, EndInvariant, PTL

-----------------------------------------------------------------------------
(* How the process exits *)

\* What main() knows of its end.  A run that will exit with 0 was woken by a signal;
\* the storage opens before the tasks exist, and only a startup that has failed leaves it
\* open without a call of its close().
ExitInv ==
    /\ storage = "open" /\ main \in {"closed", "exited"} => data = "none" /\ exitCode = 1
    /\ exitCode = 0 /\ main \in {"draining", "closed", "exited"} => signalled
    /\ main = "draining" => data # "none"

\* ExitInv is inductive, given the types and EndInv.
LEMMA ExitStep == TypeOK /\ EndInv /\ ExitInv /\ [Next]_vars => ExitInv'
<1> SUFFICES ASSUME TypeOK, EndInv, ExitInv, [Next]_vars PROVE ExitInv'
  OBVIOUS
<1> USE DEF process, ExitInv
<1>1. CASE Enqueue
  BY <1>1 DEF Enqueue
<1>2. ASSUME NEW w \in Workers, WorkerStep(w) PROVE ExitInv'
  BY <1>2 DEF WorkerStep, Take, GetTimesOut, FetchEnds, PauseEnds
<1>3. CASE DataFails
  BY <1>3, PutStopsType, WorkersCounted DEF DataFails, BeginShutdown, Stops, EndInv
<1>4. CASE PutMoreStops
  BY <1>4 DEF PutMoreStops, PutStops, EndInv
<1>5. CASE Gathered
  BY <1>5 DEF Gathered, EndInv
<1>6. CASE SignalArrives
  BY <1>6 DEF SignalArrives
<1>7. CASE MainWakes
  <2>1. data' # "none"
    <3>1. CASE data = "running" /\ BeginShutdown /\ UNCHANGED worker
      BY <3>1, PutStopsType, WorkersCounted DEF BeginShutdown, Stops
    <3>2. CASE data # "running"
      BY <1>7, <3>2 DEF MainWakes, AfterCancelledPut, EndInv
    <3> QED BY <1>7, <3>1, <3>2 DEF MainWakes
  <2>2. main' = "draining" /\ signalled' = signalled /\ storage' = storage
    BY <1>7 DEF MainWakes
  <2>3. exitCode' = 0 => signalled
    BY <1>7 DEF MainWakes, ExitCodeAtWake
  <2> QED BY <2>1, <2>2, <2>3
<1>8. CASE MainCloses
  BY <1>8 DEF MainCloses, StorageAfterCleanup
<1>9. CASE RunnerCloses
  BY <1>9 DEF RunnerCloses
<1>10. CASE Validate
  BY <1>10 DEF Validate, FailStartup, EndInv, Starting
<1>11. CASE Connect
  BY <1>11 DEF Connect, FailStartup, EndInv, Starting
<1>12. CASE Authenticate
  BY <1>12 DEF Authenticate, FailStartup, EndInv, Starting
<1>13. CASE UNCHANGED vars
  BY <1>13 DEF vars
<1> QED
  BY <1>1, <1>2, <1>3, <1>4, <1>5, <1>6, <1>7, <1>8, <1>9, <1>10, <1>11, <1>12, <1>13 DEF Next

\* A process that nobody stopped never exits as if it had been.  Its storage has been told
\* to close, unless the first login failed; the client is released, unless that close()
\* raised over the remaining readings, which the exit code does not tell.
THEOREM ExitsCleanly == Spec => []ExitIsClean
<1>1. Init => EndInv /\ ExitInv
  BY DEF Init, EndInv, ExitInv, Live, Starting
<1>2. ExitInv => ExitIsClean
  BY DEF ExitInv, ExitIsClean
<1> QED BY <1>1, <1>2, InitType, TypeStep, EndStep, ExitStep, PTL DEF Spec
=============================================================================
