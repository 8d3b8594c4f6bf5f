------------------------ MODULE DeviceReadings_proofs ------------------------
(***************************************************************************)
(* Proofs about DeviceReadings, for any sizes and timeouts: the types,     *)
(* with the bounds of queue and batch, that every accepted reading is      *)
(* accounted for, and that close() cancels readings only in a write that   *)
(* has outlasted QUEUE_BATCH_TIMEOUT.                                      *)
(***************************************************************************)
EXTENDS DeviceReadings, TLAPS

\* What Min and Max of two numbers are.
LEMMA MinOfTwo ==
  ASSUME NEW a \in Nat, NEW b \in Nat
  PROVE  Min({a, b}) = IF a <= b THEN a ELSE b
<1> DEFINE m == IF a <= b THEN a ELSE b
<1>1. m \in {a, b} /\ \A y \in {a, b} : m <= y
  OBVIOUS
<1>2. \A x \in {a, b} : (\A y \in {a, b} : x <= y) => x = m
  OBVIOUS
<1> HIDE DEF m
<1>3. Min({a, b}) = m
  BY <1>1, <1>2 DEF Min
<1> QED BY <1>3 DEF m

\* Time left never turns negative.
LEMMA LessType == ASSUME NEW t \in Nat PROVE Less(t) \in Nat
<1>1. PICK x \in {t - 1, 0} : \A y \in {t - 1, 0} : x >= y
  OBVIOUS
<1>2. Max({t - 1, 0}) \in {t - 1, 0} /\ \A y \in {t - 1, 0} : Max({t - 1, 0}) >= y
  BY <1>1 DEF Max
<1> QED BY <1>2 DEF Less

-----------------------------------------------------------------------------
(* What the helpers preserve *)

\* All that is counted of a batch once it is processed.
Decided == skipped + spoiled + sent + stats.successful + stats.failed

\* The part of TypeOK that the processing of readings changes.
CountsOK ==
    /\ {skipped, spoiled, sent} \subseteq Nat
    /\ stats \in [successful : Nat, failed : Nat]

\* Sorting a batch decides each of its readings once.
LEMMA SortedCounts ==
  ASSUME CountsOK, NEW n \in Nat, Sorted(n), sent = 0, UNCHANGED spoiled
  PROVE  CountsOK' /\ Decided' = Decided + n
<1>0. PICK unnamed \in 0..n : \E unwritable \in 0..(n - unnamed) :
        /\ skipped' = skipped + unnamed
        /\ stats' = [stats EXCEPT !.failed = @ + unwritable]
        /\ sent' = n - unnamed - unwritable
  BY DEF Sorted
<1>1. PICK unwritable \in 0..(n - unnamed) :
        /\ skipped' = skipped + unnamed
        /\ stats' = [stats EXCEPT !.failed = @ + unwritable]
        /\ sent' = n - unnamed - unwritable
  BY <1>0
<1>2. stats'.failed = stats.failed + unwritable /\ stats'.successful = stats.successful
      /\ stats' \in [successful : Nat, failed : Nat]
  BY <1>1 DEF CountsOK
<1>3. sent' \in Nat /\ skipped' \in Nat /\ unnamed \in Nat /\ unwritable \in Nat
  BY <1>1 DEF CountsOK
<1> QED BY <1>1, <1>2, <1>3 DEF CountsOK, Decided

\* No write loses more than was sent, whatever a partial write reports.
LEMMA LossesBounded ==
  ASSUME NEW n \in Nat, NEW lost \in Losses(n)
  PROVE  lost \in 0..n
<1>1. CASE lost \in {0, n}
  BY <1>1
<1>2. CASE lost \in {Min({reported, n}) : reported \in 1..(n + 1)}
  <2>1. PICK reported \in 1..(n + 1) : lost = Min({reported, n})
    BY <1>2
  <2>2. Min({reported, n}) = IF reported <= n THEN reported ELSE n
    BY MinOfTwo
  <2> QED BY <2>1, <2>2
<1> QED BY <1>1, <1>2 DEF Losses

\* The end of a write counts each of its points once.
LEMMA WriteCounts ==
  ASSUME CountsOK, WriteEnds, UNCHANGED <<skipped, spoiled>>
  PROVE  CountsOK' /\ sent' = 0 /\ Decided' = Decided
<1>1. PICK lost \in Losses(sent) :
        /\ stats' = [successful |-> stats.successful + sent - lost,
                     failed |-> stats.failed + lost]
        /\ sent' = 0
  BY DEF WriteEnds
<1>2. sent \in Nat /\ lost \in 0..sent
  BY <1>1, LossesBounded DEF CountsOK
<1>3. stats.successful \in Nat /\ stats.failed \in Nat
  BY DEF CountsOK
<1>4. stats'.successful = stats.successful + sent - lost /\ stats'.failed = stats.failed + lost
  BY <1>1
<1>5. stats.successful + sent - lost \in Nat /\ stats.failed + lost \in Nat
  BY <1>2, <1>3
<1> QED BY <1>1, <1>2, <1>3, <1>4, <1>5 DEF CountsOK, Decided

\* Processing a batch decides or sends each of its readings, or drops them all.
LEMMA BatchCounts ==
  ASSUME CountsOK, NEW n \in Nat, ProcessBatch(n), sent = 0
  PROVE  /\ CountsOK' /\ Decided' = Decided + n
         /\ proc' \in {"writing", "yielding", "pausing"} /\ timer' \in Nat
         /\ proc' # "writing" => sent' = 0
<1>1. CASE Sorted(n) /\ UNCHANGED spoiled
           /\ IF sent' > 0 THEN proc' = "writing" /\ timer' = WriteTimeout
                           ELSE proc' = "yielding" /\ timer' = 0
  <2>1. CountsOK' /\ Decided' = Decided + n
    BY <1>1, SortedCounts
  <2> QED BY <1>1, <2>1, ReadingsAssumption DEF CountsOK
<1>2. CASE MayRaise /\ spoiled' = spoiled + n /\ proc' = "pausing" /\ timer' = ErrorSleep
           /\ UNCHANGED <<skipped, stats, sent>>
  BY <1>2, ReadingsAssumption DEF CountsOK, Decided
<1> QED BY <1>1, <1>2 DEF ProcessBatch

\* The processor collects on: what it takes from the queue is in its batch or decided.
LEMMA CollectCounts ==
  ASSUME CountsOK, sent = 0, queue \in Nat,
         NEW held \in 0..BatchSize, NEW since \in Nat, NEW got \in {0, 1}, got <= queue,
         CollectOn(held, since, got)
  PROVE  /\ CountsOK' /\ queue' \in 0..queue /\ batch' \in 0..BatchSize
         /\ proc' \in {"getting", "writing", "yielding", "pausing"}
         /\ timer' \in Nat /\ age' \in Nat
         /\ proc' # "writing" => sent' = 0
         /\ proc' # "getting" => batch' = 0
         /\ queue' + batch' + Decided' = queue + held + Decided
<1> DEFINE open == since < BatchTimeout /\ ~isShuttingDown
           taken == IF open THEN Min({queue, BatchSize - held}) ELSE got
           all == held + taken
<1>1. BatchSize \in Nat /\ GetTimeout \in Nat /\ BatchSize - held \in Nat
  BY ReadingsAssumption
<1>2. taken \in 0..queue /\ (open => taken <= BatchSize - held)
  BY <1>1, MinOfTwo
<1>3. queue' = queue - taken
      /\ \/ /\ open /\ all < BatchSize
            /\ batch' = all /\ age' = since
            /\ proc' = "getting" /\ timer' = GetTimeout /\ Await
         \/ /\ all > 0 /\ batch' = 0 /\ age' = 0
            /\ ProcessBatch(all)
  BY DEF CollectOn
<1> HIDE DEF open, taken
<1>4. all \in Nat /\ queue' \in 0..queue
  BY <1>2, <1>3
<1>5. CASE batch' = all /\ age' = since /\ all < BatchSize /\ proc' = "getting"
           /\ timer' = GetTimeout /\ Await
  <2>1. CountsOK' /\ Decided' = Decided /\ sent' = 0
    BY <1>5 DEF Await, CountsOK, Decided
  <2>2. Decided \in Nat
    BY DEF Decided, CountsOK
  <2> QED BY <1>1, <1>2, <1>3, <1>4, <1>5, <2>1, <2>2
<1>6. CASE batch' = 0 /\ age' = 0 /\ ProcessBatch(all)
  <2>1. Decided \in Nat
    BY DEF Decided, CountsOK
  <2>2. queue' + batch' + Decided' = queue + held + Decided
    BY <1>2, <1>3, <1>4, <1>6, <2>1, BatchCounts
  <2> QED BY <1>1, <1>4, <1>6, <2>2, BatchCounts
<1> QED BY <1>3, <1>5, <1>6

-----------------------------------------------------------------------------
(* The invariant *)

\* Where readings can be at all.  The processor holds a batch only while it collects;
\* a write is under way only where one is awaited, close() never acts beside the processor,
\* and remaining_items is only filled while close() drains the queue.
PlaceInv ==
    /\ proc # "getting" => batch = 0
    /\ proc # "writing" /\ closer # "writing" => sent = 0
    /\ closer \in {"draining", "writing", "flushing", "closed", "raised"} => proc = "ended"
    /\ closer # "draining" => rest = 0

\* The inductive invariant of both theorems.
Inv == TypeOK /\ PlaceInv /\ EachReadingAccounted

\* The sum that EachReadingAccounted speaks of, with what is decided taken together.
LEMMA AccountedAsSum ==
  ASSUME TypeOK
  PROVE  /\ CountsOK /\ Decided \in Nat
         /\ EachReadingAccounted <=> accepted = queue + batch + rest + cancelled + Decided
  BY DEF TypeOK, CountsOK, Decided, EachReadingAccounted

\* What a step of the processor has to show.
LEMMA ProcessorKeeps ==
  ASSUME Inv, UNCHANGED <<closing, accepted, cancelled>>, CountsOK',
         queue' \in 0..queue, batch' \in 0..BatchSize, timer' \in Nat, age' \in Nat,
         proc' \in Modes, proc # "ended",
         proc' # "writing" => sent' = 0,
         proc' # "getting" => batch' = 0,
         queue' + batch' + Decided' = queue + batch + Decided
  PROVE  Inv'
<1>1. TypeOK'
  BY ReadingsAssumption DEF Inv, TypeOK, CountsOK, closing
<1>2. PlaceInv'
  BY DEF Inv, PlaceInv, closing
<1>3. CountsOK' /\ Decided' \in Nat
  BY DEF CountsOK, Decided
<1>4. EachReadingAccounted' <=> accepted' = queue' + batch' + rest' + cancelled' + Decided'
  BY DEF CountsOK, Decided, TypeOK, EachReadingAccounted, Inv, closing
<1>5. accepted = queue + batch + rest + cancelled + Decided /\ Decided \in Nat
  BY AccountedAsSum DEF Inv
<1>6. accepted' = queue' + batch' + rest' + cancelled' + Decided'
  <2>1. {accepted, rest, cancelled, queue, batch} \subseteq Nat
    BY DEF Inv, TypeOK
  <2>2. accepted' = accepted /\ rest' = rest /\ cancelled' = cancelled
    BY DEF closing
  <2>3. queue' \in Nat /\ batch' \in Nat
    BY <2>1, ReadingsAssumption
  <2> QED BY <1>3, <1>5, <2>1, <2>2, <2>3
<1> QED BY <1>1, <1>2, <1>4, <1>6 DEF Inv

\* The processor starts its next batch, or ends.
LEMMA NextBatchKeeps ==
  ASSUME Inv, NextBatch, proc # "ended", batch = 0, sent = 0,
         UNCHANGED <<closing, accepted, cancelled>>
  PROVE  Inv'
<1>1. CountsOK /\ queue \in Nat
  BY DEF Inv, TypeOK, CountsOK
<1>2. CASE isShuttingDown /\ proc' = "ended" /\ timer' = 0 /\ batch' = 0 /\ age' = 0
           /\ UNCHANGED queue /\ Await
  <2>1. CountsOK' /\ Decided' = Decided /\ sent' = 0
    BY <1>1, <1>2 DEF Await, CountsOK, Decided
  <2> QED BY <1>1, <1>2, <2>1, ProcessorKeeps, ReadingsAssumption DEF Modes
<1>3. CASE CollectOn(0, 0, 0)
  <2>1. 0 \in 0..BatchSize /\ 0 <= queue
    BY <1>1, ReadingsAssumption
  <2> QED BY <1>1, <1>3, <2>1, CollectCounts, ProcessorKeeps DEF Modes
<1> QED BY <1>2, <1>3 DEF NextBatch

\* Every step of the processor keeps the invariant.
LEMMA ProcessorInv == Inv /\ ProcessorStep => Inv'
<1> SUFFICES ASSUME Inv, ProcessorStep PROVE Inv'
  OBVIOUS
<1>1. CountsOK /\ queue \in Nat /\ batch \in 0..BatchSize /\ age \in Nat
  BY DEF Inv, TypeOK, CountsOK
<1>2. CASE Got
  <2>1. sent = 0 /\ 1 <= queue
    BY <1>1, <1>2 DEF Got, Inv, PlaceInv
  <2> QED BY <1>1, <1>2, <2>1, CollectCounts, ProcessorKeeps DEF Got, Modes
<1>3. CASE GetTimedOut
  <2>1. sent = 0 /\ 0 <= queue
    BY <1>1, <1>3 DEF GetTimedOut, Inv, PlaceInv
  <2>2. CASE NextBatch /\ batch = 0
    BY <1>3, <2>1, <2>2, NextBatchKeeps DEF GetTimedOut
  <2>3. CASE CollectOn(batch, age, 0)
    BY <1>1, <1>3, <2>1, <2>3, CollectCounts, ProcessorKeeps DEF GetTimedOut, Modes
  <2> QED BY <1>3, <2>2, <2>3 DEF GetTimedOut
<1>4. CASE BatchWritten
  <2>1. CountsOK' /\ sent' = 0 /\ Decided' = Decided
    BY <1>1, <1>4, WriteCounts DEF BatchWritten
  <2> QED BY <1>1, <1>4, <2>1, ProcessorKeeps DEF BatchWritten, Modes, Inv, PlaceInv
<1>5. CASE Resume
  <2>1. sent = 0 /\ batch = 0
    BY <1>5 DEF Resume, Inv, PlaceInv
  <2> QED BY <1>5, <2>1, NextBatchKeeps DEF Resume
<1> QED BY <1>2, <1>3, <1>4, <1>5 DEF ProcessorStep

\* What a step of close() has to show.
LEMMA CloseKeeps ==
  ASSUME Inv, CountsOK',
         {queue', rest', cancelled', timer', age', closeTimer'} \subseteq Nat, queue' <= queue,
         batch' \in 0..BatchSize, proc' \in Modes, clientOpen' \in BOOLEAN,
         closer' \in {"draining", "writing", "flushing", "closed", "raised"},
         UNCHANGED accepted, PlaceInv',
         queue' + batch' + rest' + cancelled' + Decided' =
           queue + batch + rest + cancelled + Decided
  PROVE  Inv'
<1>1. TypeOK'
  BY ReadingsAssumption DEF Inv, TypeOK, CountsOK
<1>2. EachReadingAccounted' <=> accepted' = queue' + batch' + rest' + cancelled' + Decided'
  BY <1>1 DEF TypeOK, Decided, EachReadingAccounted
<1>3. accepted = queue + batch + rest + cancelled + Decided
  BY AccountedAsSum DEF Inv
<1> QED BY <1>1, <1>2, <1>3 DEF Inv

\* Every step of close() keeps it, the cancellation of the processor included.
LEMMA CloseInv == Inv /\ CloseStep => Inv'
<1> SUFFICES ASSUME Inv, CloseStep PROVE Inv'
  OBVIOUS
<1>1. /\ CountsOK /\ Decided \in Nat
      /\ {queue, rest, cancelled, timer, age, closeTimer, batch, sent, GetTimeout} \subseteq Nat
      /\ batch \in 0..BatchSize /\ proc \in Modes /\ clientOpen \in BOOLEAN
      /\ 0 \in 0..BatchSize /\ WriteTimeout \in Nat
  BY AccountedAsSum, ReadingsAssumption DEF Inv, TypeOK
<1>2. CASE ProcessorEnded
  <2>1. CountsOK' /\ Decided' = Decided
    BY <1>1, <1>2 DEF ProcessorEnded, CountsOK, Decided
  <2>2. rest = 0 /\ PlaceInv'
    BY <1>2 DEF ProcessorEnded, Drain, processor, Inv, PlaceInv
  <2> QED BY <1>1, <1>2, <2>1, <2>2, CloseKeeps DEF ProcessorEnded, Drain, processor
<1>3. CASE CancelProcessor
  <2>1. CountsOK' /\ Decided' = Decided - sent
    BY <1>1, <1>3 DEF CancelProcessor, CountsOK, Decided
  <2>2. rest = 0 /\ PlaceInv'
    BY <1>3 DEF CancelProcessor, Drain, Inv, PlaceInv
  <2>3. cancelled' = cancelled + batch + sent /\ batch' = 0 /\ rest' = queue /\ queue' = 0
    BY <1>3 DEF CancelProcessor, Drain
  <2> QED BY <1>1, <1>3, <2>1, <2>2, <2>3, CloseKeeps DEF CancelProcessor, Drain, Modes
<1>4. CASE ProcessRest
  <2>1. sent = 0
    BY <1>4 DEF ProcessRest, Inv, PlaceInv
  <2>2. CASE Sorted(rest) /\ UNCHANGED spoiled
             /\ IF sent' > 0 THEN closer' = "writing" /\ closeTimer' = WriteTimeout
                             ELSE closer' = "flushing" /\ closeTimer' = 0
    <3>1. CountsOK' /\ Decided' = Decided + rest
      BY <1>1, <2>1, <2>2, SortedCounts
    <3>2. sent' \in Nat
      BY <3>1 DEF CountsOK
    <3>3. PlaceInv'
      BY <1>4, <2>2, <3>2 DEF ProcessRest, processor, Inv, PlaceInv
    <3> QED BY <1>1, <1>4, <2>2, <3>1, <3>3, CloseKeeps DEF ProcessRest, processor
  <2>3. CASE spoiled' = spoiled + rest /\ closer' = "raised" /\ closeTimer' = 0
             /\ UNCHANGED <<skipped, stats, sent>>
    <3>1. CountsOK' /\ Decided' = Decided + rest
      BY <1>1, <2>3 DEF CountsOK, Decided
    <3>2. PlaceInv'
      BY <1>4, <2>1, <2>3 DEF ProcessRest, processor, Inv, PlaceInv
    <3> QED BY <1>1, <1>4, <2>3, <3>1, <3>2, CloseKeeps DEF ProcessRest, processor
  <2> QED BY <1>4, <2>2, <2>3 DEF ProcessRest
<1>5. CASE NothingRemains
  <2>1. CountsOK' /\ Decided' = Decided
    BY <1>1, <1>5 DEF NothingRemains, CountsOK, Decided
  <2>2. PlaceInv'
    BY <1>5 DEF NothingRemains, processor, Inv, PlaceInv
  <2> QED BY <1>1, <1>5, <2>1, <2>2, CloseKeeps DEF NothingRemains, processor
<1>6. CASE RestWritten
  <2>1. CountsOK' /\ sent' = 0 /\ Decided' = Decided
    BY <1>1, <1>6, WriteCounts DEF RestWritten
  <2>2. PlaceInv'
    BY <1>6, <2>1 DEF RestWritten, processor, Inv, PlaceInv
  <2> QED BY <1>1, <1>6, <2>1, <2>2, CloseKeeps DEF RestWritten, processor
<1>7. CASE CloseClient
  <2>1. CountsOK' /\ Decided' = Decided
    BY <1>1, <1>7 DEF CloseClient, CountsOK, Decided
  <2>2. PlaceInv'
    BY <1>7 DEF CloseClient, processor, Inv, PlaceInv
  <2>3. /\ UNCHANGED <<queue, batch, rest, cancelled, timer, age, closeTimer, proc, accepted>>
        /\ closer' = "closed" /\ clientOpen' = FALSE
    BY <1>7 DEF CloseClient, processor
  <2>4. /\ {queue', rest', cancelled', timer', age', closeTimer'} \subseteq Nat /\ queue' <= queue
        /\ batch' \in 0..BatchSize /\ proc' \in Modes /\ clientOpen' \in BOOLEAN
        /\ closer' \in {"draining", "writing", "flushing", "closed", "raised"}
    <3>1. {queue', rest', cancelled', timer', age', closeTimer'} \subseteq Nat
      BY <1>1, <2>3
    <3>2. queue' <= queue
      BY <1>1, <2>3
    <3>3. batch' \in 0..BatchSize /\ proc' \in Modes
      BY <1>1, <2>3
    <3>4. clientOpen' \in BOOLEAN
      BY <2>3
    <3>5. closer' \in {"draining", "writing", "flushing", "closed", "raised"}
      BY <2>3
    <3> QED BY <3>1, <3>2, <3>3, <3>4, <3>5
  <2>5. queue' + batch' + rest' + cancelled' + Decided' =
           queue + batch + rest + cancelled + Decided
    BY <2>1, <2>3
  <2> QED BY <2>1, <2>2, <2>3, <2>4, <2>5, CloseKeeps
<1> QED BY <1>2, <1>3, <1>4, <1>5, <1>6, <1>7 DEF CloseStep

\* A reading arrives, close() is called, or time passes.
LEMMA OtherInv == Inv /\ (AddDeviceData \/ CloseStarts \/ Tick \/ UNCHANGED vars) => Inv'
<1> SUFFICES ASSUME Inv, AddDeviceData \/ CloseStarts \/ Tick \/ UNCHANGED vars PROVE Inv'
  OBVIOUS
<1>1. CASE AddDeviceData
  <2>1. TypeOK'
    BY <1>1, ReadingsAssumption DEF AddDeviceData, processor, closing, Inv, TypeOK
  <2>2. PlaceInv'
    BY <1>1 DEF AddDeviceData, processor, closing, Inv, PlaceInv
  <2>3. EachReadingAccounted'
    BY <1>1 DEF AddDeviceData, processor, closing, Inv, TypeOK, EachReadingAccounted
  <2> QED BY <2>1, <2>2, <2>3 DEF Inv
<1>2. CASE CloseStarts
  <2>1. TypeOK'
    <3>1. CloseWait \in Nat
      BY ReadingsAssumption DEF CloseWait
    <3> QED BY <1>2, <3>1 DEF CloseStarts, processor, Inv, TypeOK
  <2>2. PlaceInv'
    BY <1>2 DEF CloseStarts, processor, Inv, PlaceInv
  <2>3. EachReadingAccounted'
    BY <1>2 DEF CloseStarts, processor, Inv, EachReadingAccounted
  <2> QED BY <2>1, <2>2, <2>3 DEF Inv
<1>3. CASE Tick
  <2>1. timer \in Nat /\ closeTimer \in Nat /\ age \in Nat
    BY DEF Inv, TypeOK
  <2>2. Less(timer) \in Nat /\ Less(closeTimer) \in Nat
    BY <2>1, LessType
  <2>3. timer' \in Nat /\ closeTimer' \in Nat /\ age' \in Nat
    BY <1>3, <2>1, <2>2 DEF Tick
  <2>4. TypeOK'
    BY <1>3, <2>3 DEF Tick, Inv, TypeOK
  <2>5. PlaceInv'
    BY <1>3 DEF Tick, Inv, PlaceInv
  <2>6. EachReadingAccounted'
    BY <1>3 DEF Tick, Inv, EachReadingAccounted
  <2> QED BY <2>4, <2>5, <2>6 DEF Inv
<1>4. CASE UNCHANGED vars
  BY <1>4 DEF vars, processor, closing, Inv, TypeOK, PlaceInv, EachReadingAccounted
<1> QED BY <1>1, <1>2, <1>3, <1>4

\* The invariant holds throughout.
LEMMA Invariant == Spec => []Inv
<1>1. Init => Inv
  BY ReadingsAssumption DEF Init, Inv, TypeOK, PlaceInv, EachReadingAccounted, Modes
<1>2. Inv /\ [Next]_vars => Inv'
  BY ProcessorInv, CloseInv, OtherInv DEF Next, LoopTurn
<1> QED BY <1>1, <1>2, PTL DEF Spec

\* Queue and batch keep their bounds, and no counter turns negative, for any sizes: not
\* even when a partial write reports more points lost than were sent.
THEOREM TypeCorrect == Spec => []TypeOK
<1>1. Inv => TypeOK
  BY DEF Inv
<1> QED BY <1>1, Invariant, PTL

\* Every accepted reading is in one place or counted once, for any sizes, timeouts and
\* outcomes of the writes.
THEOREM Accounted == Spec => []EachReadingAccounted
<1>1. Inv => EachReadingAccounted
  BY DEF Inv
<1> QED BY <1>1, Invariant, PTL

-----------------------------------------------------------------------------
(* close() waits long enough *)

\* A time that is left shrinks by one.
LEMMA LessOne == ASSUME NEW t \in Nat, t > 0 PROVE Less(t) = t - 1
<1> DEFINE m == t - 1
<1>1. m \in {t - 1, 0} /\ \A y \in {t - 1, 0} : m >= y
  OBVIOUS
<1>2. \A x \in {t - 1, 0} : (\A y \in {t - 1, 0} : x >= y) => x = m
  OBVIOUS
<1> HIDE DEF m
<1>3. Max({t - 1, 0}) = m
  BY <1>1, <1>2 DEF Max
<1> QED BY <1>3 DEF Less, m

\* While close() waits, its time covers the get under way and QUEUE_BATCH_TIMEOUT after it;
\* of a write under way it covers QUEUE_BATCH_TIMEOUT from where the write began.  No await
\* has more time left than it began with.
WaitInv ==
    /\ closer = "no" => (proc = "getting" => timer <= GetTimeout)
    /\ closer \in {"no", "waiting"} => (proc = "writing" => timer <= WriteTimeout)
    /\ closer = "waiting" =>
         /\ proc = "getting" => closeTimer >= timer + BatchTimeout + 1
         /\ proc = "writing" => closeTimer + (WriteTimeout - timer) >= BatchTimeout + 1

\* A get and a write begin with their own timeouts, and once close() has been called the
\* processor collects no further.
LEMMA CollectTimes ==
  ASSUME NEW held, NEW since, NEW got, CollectOn(held, since, got)
  PROVE  /\ proc' = "getting" => timer' = GetTimeout /\ ~isShuttingDown
         /\ proc' = "writing" => timer' = WriteTimeout
<1>1. CASE proc' = "getting" /\ timer' = GetTimeout /\ ~isShuttingDown
  BY <1>1
<1>2. CASE \E n : ProcessBatch(n)
  BY <1>2 DEF ProcessBatch
<1> QED BY <1>1, <1>2 DEF CollectOn

\* The processor starts its next batch only while close() has not been called.
LEMMA NextBatchTimes ==
  ASSUME NextBatch
  PROVE  /\ proc' = "getting" => timer' = GetTimeout /\ ~isShuttingDown
         /\ proc' = "writing" => timer' = WriteTimeout
<1>1. CASE isShuttingDown /\ proc' = "ended"
  BY <1>1
<1>2. CASE CollectOn(0, 0, 0)
  BY <1>2, CollectTimes
<1> QED BY <1>1, <1>2 DEF NextBatch

\* A step of the processor leaves close() the time it needs.
LEMMA ProcessorWait == Inv /\ WaitInv /\ ProcessorStep => WaitInv'
<1> SUFFICES ASSUME Inv, WaitInv, ProcessorStep PROVE WaitInv'
  OBVIOUS
<1>1. {timer, closeTimer, GetTimeout, WriteTimeout, BatchTimeout} \subseteq Nat
  BY ReadingsAssumption DEF Inv, TypeOK
<1>2. CASE Got \/ GetTimedOut
  <2>1. /\ proc' = "getting" => timer' = GetTimeout /\ ~isShuttingDown
        /\ proc' = "writing" => timer' = WriteTimeout
    BY <1>2, CollectTimes, NextBatchTimes DEF Got, GetTimedOut
  <2>2. proc = "getting" /\ UNCHANGED <<closing, cancelled>>
    BY <1>2 DEF Got, GetTimedOut
  <2> QED BY <1>1, <2>1, <2>2 DEF WaitInv, closing, isShuttingDown
<1>3. CASE BatchWritten
  BY <1>3 DEF BatchWritten, WaitInv, closing
<1>4. CASE Resume
  <2>1. /\ proc' = "getting" => timer' = GetTimeout /\ ~isShuttingDown
        /\ proc' = "writing" => timer' = WriteTimeout /\ ~isShuttingDown
    BY <1>4, NextBatchTimes DEF Resume, NextBatch
  <2> QED BY <1>1, <1>4, <2>1 DEF Resume, WaitInv, closing, isShuttingDown
<1> QED BY <1>2, <1>3, <1>4 DEF ProcessorStep

\* Once close() has stopped waiting nothing is left to say.
LEMMA CloseWaitInv == Inv /\ WaitInv /\ CloseStep => WaitInv'
<1> SUFFICES ASSUME Inv, WaitInv, CloseStep PROVE WaitInv'
  OBVIOUS
<1>1. CASE CancelProcessor \/ ProcessorEnded
  BY <1>1 DEF CancelProcessor, ProcessorEnded, Drain, WaitInv
<1>2. CASE ProcessRest \/ NothingRemains \/ RestWritten \/ CloseClient
  BY <1>2 DEF ProcessRest, NothingRemains, RestWritten, CloseClient, WaitInv
<1> QED BY <1>1, <1>2 DEF CloseStep

\* close() is called with time enough, and time runs for both of them alike.
LEMMA OtherWait ==
  ASSUME Inv, WaitInv,
         AddDeviceData \/ CloseStarts \/ Tick \/ UNCHANGED vars
  PROVE  WaitInv'
<1>1. {timer, closeTimer, GetTimeout, WriteTimeout, BatchTimeout} \subseteq Nat
  BY ReadingsAssumption DEF Inv, TypeOK
<1>2. CASE AddDeviceData \/ UNCHANGED vars
  BY <1>2 DEF AddDeviceData, vars, processor, closing, WaitInv
<1>3. CASE CloseStarts
  BY <1>1, <1>3 DEF CloseStarts, CloseWait, processor, WaitInv
<1>4. CASE Tick
  <2>1. UNCHANGED <<proc, closer, cancelled>>
    BY <1>4 DEF Tick
  <2>2. CASE proc \in {"getting", "writing"} /\ closer \in {"no", "waiting"}
    <3>1. timer > 0 /\ (closer = "waiting" => closeTimer > 0)
      BY <1>1, <1>4, <2>2 DEF Tick, SomethingReady
    <3>2. timer' = timer - 1 /\ (closer = "waiting" => closeTimer' = closeTimer - 1)
      BY <1>1, <1>4, <3>1, LessOne DEF Tick
    <3> QED BY <1>1, <2>1, <2>2, <3>2 DEF WaitInv
  <2>3. CASE ~(proc \in {"getting", "writing"} /\ closer \in {"no", "waiting"})
    BY <2>1, <2>3 DEF WaitInv
  <2> QED BY <2>2, <2>3
<1> QED BY <1>2, <1>3, <1>4

\* No other step than CancelProcessor cancels a reading, and that one finds the processor
\* with nothing in hand, or in a write that began longer than QUEUE_BATCH_TIMEOUT ago.
LEMMA CancelsSlowWrite ==
  ASSUME Inv, WaitInv, [Next]_vars, cancelled' # cancelled
  PROVE  proc = "writing" /\ WriteTimeout - timer > BatchTimeout
<1>1. {timer, closeTimer, batch, sent, cancelled, WriteTimeout, BatchTimeout} \subseteq Nat
  BY ReadingsAssumption DEF Inv, TypeOK
<1>2. CancelProcessor
  BY DEF Next, LoopTurn, AddDeviceData, CloseStarts, Tick, ProcessorStep, Got, GetTimedOut,
         BatchWritten, Resume, CloseStep, ProcessorEnded, ProcessRest, NothingRemains,
         RestWritten, CloseClient, vars
<1>3. closer = "waiting" /\ closeTimer = 0 /\ cancelled' = cancelled + batch + sent
  BY <1>2 DEF CancelProcessor
<1>4. proc # "getting"
  BY <1>1, <1>3 DEF WaitInv
<1>5. CASE proc = "writing"
  BY <1>1, <1>3, <1>5 DEF WaitInv
<1>6. CASE proc # "writing"
  <2>1. batch = 0 /\ sent = 0
    BY <1>3, <1>4, <1>6 DEF Inv, PlaceInv
  <2> QED BY <1>1, <1>3, <2>1
<1> QED BY <1>5, <1>6

\* close() cancels readings in hand only in a write that has outlasted QUEUE_BATCH_TIMEOUT,
\* for any sizes and timeouts: of its wait, a get under way uses up no more than the part
\* that is QUEUE_TIMEOUT.
THEOREM OnlySlowCancelled == Spec => OnlySlowWritesAreCancelled
<1>1. Init => WaitInv
  BY ReadingsAssumption DEF Init, WaitInv
<1>2. Inv /\ WaitInv /\ [Next]_vars => WaitInv'
  BY ProcessorWait, CloseWaitInv, OtherWait DEF Next, LoopTurn
<1>3. Inv /\ WaitInv /\ [Next]_vars =>
        [cancelled' # cancelled => proc = "writing" /\ WriteTimeout - timer > BatchTimeout]_vars
  BY CancelsSlowWrite
<1> QED BY <1>1, <1>2, <1>3, Invariant, PTL DEF Spec, OnlySlowWritesAreCancelled
=============================================================================
