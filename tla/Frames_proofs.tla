---------------------------- MODULE Frames_proofs ----------------------------
(***************************************************************************)
(* Proofs about Frames, with the Heartbeat and the PointFields it uses:    *)
(* for any frames, settings and timeouts, every property that its run      *)
(* checks.                                                                 *)
(***************************************************************************)
EXTENDS Frames, SequenceTheorems, WellFoundedInduction, TLAPS

-----------------------------------------------------------------------------
(* The invariant: the reader, the heartbeat and the shard *)

\* What the reader has done of the frame in hand.
ReaderInv ==
    /\ frame \in FrameSet \cup {NoFrame}
    /\ writing \in BOOLEAN /\ (writing => frame # NoFrame)
    /\ IF frame = NoFrame THEN ended \in {"handled", "cut"} ELSE ended = "no"
    /\ offered \subseteq handed
    /\ ~writing => at = 0 /\ handed = {}
    /\ writing /\ Realtime(frame) =>
          at = 0 /\ handed = Good(frame) /\ ~PreparationRaises(frame)
    /\ writing /\ ~Realtime(frame) =>
          /\ at \in Good(frame) \cap handed
          /\ \A i \in Good(frame) : i <= at => i \in handed
          /\ Timeline(frame) => handed \ offered \subseteq {at}
          /\ States(frame) => handed \subseteq offered

\* The ages stay between a step of the clock back and stale.
HeartTypes ==
    /\ maxAge \in MaxAgeLow..MaxAgeHigh /\ interval \in Nat \ {0} /\ garbled \in BOOLEAN
    /\ fileAge \in -MaxStep..Stale /\ beatAge \in -MaxStep..Stale /\ heard \in 0..Stale
    /\ failed \in BOOLEAN /\ stepped \in {-MaxStep, 0, MaxStep} /\ cut \in BOOLEAN
    /\ stepped = 0 => fileAge >= 0 /\ beatAge >= 0

\* The age of the file, but for a step of the clock, tells when a reading was received; an
\* age that is out of range stays stale.
FileTells ==
    \/ heard <= fileAge - stepped + WriteTimeout
    \/ fileAge > MaxAgeHigh /\ (stepped = 0 => fileAge = Stale)

\* The reading received last was touched for, or within half a window of a touch.
TouchedInTime ==
    (~failed /\ ~garbled /\ stepped <= 0 /\ ~cut) => fileAge <= (maxAge \div 2) - 1 + heard

\* The inductive invariant of the health check.
HeartInv ==
    /\ HeartTypes
    /\ ~garbled => interval <= maxAge \div 2
    /\ ~failed => fileAge <= beatAge
    /\ UsableInHand => heard <= WriteTimeout
    /\ FileTells
    /\ UsableInHand \/ TouchedInTime

\* A field whose values are converted has the type they are converted to, unless an
\* improper value came first.
FieldTyped(s, f) ==
    /\ f \in FloatFields \cup ParsedFields => s.type[f] \in {"none", "float"}
    /\ f \in NumFields => s.type[f] \in {"none", "float"} \/ f \in s.fouled
    /\ f \in WholeFields => s.type[f] \in {"none", "int"} \/ f \in s.fouled
    /\ f \in s.refused => /\ f \notin FloatFields \cup ParsedFields
                          /\ f \in NumFields \cup WholeFields => f \in s.fouled

\* Every watched field has one type, the one it is converted to.
ShardTyped(s) ==
    /\ s \in [type : [Watched -> Types \cup {"none"}],
              fouled : SUBSET Watched, refused : SUBSET Watched]
    /\ \A f \in Watched : FieldTyped(s, f)

\* The inductive invariant of NumbersKeepTheirField.
ShardInv == ShardTyped(shard)

-----------------------------------------------------------------------------
(* The reader *)

\* A set of numbers has a least.
LEMMA LeastNumber ==
  ASSUME NEW T \in SUBSET Nat, T # {}
  PROVE  \E n \in T : \A m \in T : n <= m
<1>1. PICK n \in T : \A m \in T : ~ (<<m, n>> \in OpToRel(<, Nat))
  BY WFMin, NatLessThanWellFounded
<1>2. ASSUME NEW m \in Nat, m < n PROVE <<m, n>> \in OpToRel(<, Nat)
  BY <1>2, Zenon DEF OpToRel
<1>3. \A m \in T : ~ (m < n)
  BY <1>1, <1>2
<1> QED BY <1>3

\* The items of a frame are a sequence, and the good ones are among them.
LEMMA ItemsOf ==
  ASSUME NEW f \in FrameSet
  PROVE  /\ Len(f.items) \in Nat /\ DOMAIN f.items = 1..Len(f.items)
         /\ Good(f) \subseteq 1..Len(f.items)
<1>1. f.items \in Seq(ToSet(f.items))
  BY FramesAssumption
<1>2. Len(f.items) \in Nat /\ DOMAIN f.items = 1..Len(f.items)
  BY <1>1, LenProperties
<1> QED BY <1>2 DEF Good

\* The next item is good or raises, and those before it neither; or there is none.
LEMMA NextItemIsNext ==
  ASSUME NEW f \in FrameSet, NEW n \in 1..(Len(f.items) + 1)
  PROVE  /\ NextItem(f, n) \in n..(Len(f.items) + 1)
         /\ NextItem(f, n) \in Good(f) \/ RaisesAt(f, NextItem(f, n))
              \/ NextItem(f, n) = Len(f.items) + 1
         /\ \A i \in n..Len(f.items) : i < NextItem(f, n) => i \notin Good(f)
<1> DEFINE some == {i \in n..Len(f.items) : i \in Good(f) \/ RaisesAt(f, i)}
           last == Len(f.items)
<1>1. last \in Nat /\ n \in Nat /\ some \subseteq Nat
  BY ItemsOf
<1>2. CASE some = {}
  <2>1. NextItem(f, n) = last + 1
    BY <1>2 DEF NextItem
  <2>2. \A i \in n..last : i \notin Good(f)
    BY <1>2
  <2> HIDE DEF last, some
  <2>3. last + 1 \in n..(last + 1)
    BY <1>1 DEF last
  <2> QED BY <2>1, <2>2, <2>3 DEF last
<1>3. CASE some # {}
  <2>1. NextItem(f, n) = CHOOSE i \in some : \A j \in some : i <= j
    BY <1>3 DEF NextItem
  <2>2. \E i \in some : \A j \in some : i <= j
    <3> HIDE DEF some
    <3> QED BY <1>1, <1>3, LeastNumber
  <2>3. NextItem(f, n) \in some /\ \A j \in some : NextItem(f, n) <= j
    BY <2>1, <2>2
  <2>4. \A i \in n..last : i < NextItem(f, n) => i \notin some
    BY <1>1, <2>3
  <2> QED BY <1>1, <2>3, <2>4
<1> QED BY <1>2, <1>3

\* How the handler of a list goes on after item `at` (0 before the first): at the end, or
\* with the next good item.
LEMMA GoneOn ==
  ASSUME ReaderInv, frame # NoFrame, ~Realtime(frame), NEW asked,
         offered \subseteq asked, asked \subseteq offered \cup {at}, asked \subseteq handed,
         Timeline(frame) => handed \subseteq asked,
         GoOn(NextItem(frame, at + 1), asked)
  PROVE  /\ ReaderInv'
         /\ \/ FrameEnds("handled", asked)
               /\ \A i \in Good(frame) \ handed :
                     Timeline(frame) /\ \E j \in 1..i : frame.items[j].kind = "not_object"
            \/ frame' = frame /\ ended' = ended
<1> DEFINE n == Len(frame.items)
           next == NextItem(frame, at + 1)
<1>1. frame \in FrameSet
  BY DEF ReaderInv
<1>2. n \in Nat /\ DOMAIN frame.items = 1..n /\ Good(frame) \subseteq 1..n
  BY <1>1, ItemsOf
<1>3. at + 1 \in 1..(n + 1) /\ at \in Nat
  BY <1>2 DEF ReaderInv
<1>4. /\ next \in (at + 1)..(n + 1)
      /\ next \in Good(frame) \/ RaisesAt(frame, next) \/ next = n + 1
      /\ \A i \in (at + 1)..n : i < next => i \notin Good(frame)
  BY <1>1, <1>3, NextItemIsNext
<1>5. \A i \in Good(frame) : i <= at => i \in handed
  BY <1>2, <1>3 DEF ReaderInv
<1> HIDE DEF n, next
<1>6. \A i \in Good(frame) \ handed : i >= next
  BY <1>2, <1>3, <1>4, <1>5
<1>7. CASE next > n \/ (next \in DOMAIN frame.items /\ RaisesAt(frame, next))
  <2>1. FrameEnds("handled", asked)
    BY <1>7 DEF GoOn, next, n
  <2>2. ReaderInv'
    BY <2>1 DEF FrameEnds, ReaderInv
  <2>3. ASSUME NEW i \in Good(frame) \ handed
        PROVE  Timeline(frame) /\ \E j \in 1..i : frame.items[j].kind = "not_object"
    <3>1. i >= next /\ i \in 1..n /\ next \in 1..i
      BY <1>2, <1>3, <1>4, <1>6
    <3>2. RaisesAt(frame, next)
      BY <1>2, <1>4, <1>7, <3>1
    <3> QED BY <3>1, <3>2 DEF RaisesAt
  <2> QED BY <2>1, <2>2, <2>3
<1>8. CASE ~ (next > n) /\ ~ (next \in DOMAIN frame.items /\ RaisesAt(frame, next))
  <2>1. /\ writing' = TRUE /\ at' = next /\ handed' = handed \cup {next}
        /\ offered' = IF States(frame) THEN asked \cup {next} ELSE asked
        /\ UNCHANGED <<frame, missed, ended>>
    BY <1>8 DEF GoOn, next, n
  <2>2. next \in Good(frame) /\ next \in Nat
    BY <1>2, <1>3, <1>4, <1>8
  <2>3. \A i \in Good(frame) : i <= next => i \in handed \cup {next}
    BY <1>2, <1>6, <2>2
  <2>4. States(frame) => handed \subseteq asked
    BY DEF ReaderInv
  <2>5. offered' \subseteq handed'
    BY <2>1
  <2>6. Timeline(frame') => handed' \ offered' \subseteq {at'}
    BY <2>1 DEF Timeline, States
  <2>7. States(frame') => handed' \subseteq offered'
    BY <2>1, <2>4 DEF States
  <2>8. Good(frame)' = Good(frame) /\ Realtime(frame)' = Realtime(frame)
    BY <2>1
  <2>9. ReaderInv'
    BY <2>1, <2>2, <2>3, <2>5, <2>6, <2>7, <2>8 DEF ReaderInv
  <2> QED BY <2>1, <2>9
<1> QED BY <1>7, <1>8

\* The bodies of BadItemCostsItself and WrittenItemsAreLookedUp.
BadItemSteps ==
    (frame # NoFrame /\ ended' = "handled") =>
        \A i \in Good(frame) \ handed :
           \/ ~WellShaped(frame)
           \/ Realtime(frame) /\ PreparationRaises(frame)
           \/ Timeline(frame) /\ \E j \in 1..i : frame.items[j].kind = "not_object"

\* The body of WrittenItemsAreLookedUp.
LookUpSteps ==
    (frame # NoFrame /\ frame' = NoFrame /\ (Timeline(frame) \/ States(frame))) =>
        missed' \subseteq IF ended' = "cut" THEN {at} ELSE {}

\* What is proved of each step of the reader.
ReaderSteps == ReaderInv' /\ BadItemSteps /\ LookUpSteps

\* Where the frame stays in hand, nothing ends.
LEMMA InHandSteps ==
  ASSUME ReaderInv, ReaderInv', UNCHANGED <<frame, ended>>
  PROVE  ReaderSteps
BY DEF ReaderInv, ReaderSteps, BadItemSteps, LookUpSteps

\* A frame comes in hand.
LEMMA ArrivalSteps == ASSUME ReaderInv, FrameArrives PROVE ReaderSteps
<1>1. frame' \in FrameSet /\ frame' # NoFrame
  BY FramesAssumption DEF FrameArrives
<1> QED BY <1>1 DEF FrameArrives, ReaderInv, ReaderSteps, BadItemSteps, LookUpSteps

\* A realtime frame is written, or costs only itself.
LEMMA RealtimeSteps == ASSUME ReaderInv, HandleRealtime PROVE ReaderSteps
<1>1. frame # NoFrame /\ ~writing /\ Realtime(frame) /\ handed = {} /\ at = 0 /\ offered = {}
  BY DEF HandleRealtime, ReaderInv
<1>2. ~Timeline(frame) /\ ~States(frame)
  BY <1>1 DEF Realtime, Timeline, States
<1>3. CASE WellShaped(frame) /\ ~PreparationRaises(frame)
  <2>1. writing' = TRUE /\ handed' = Good(frame)
        /\ UNCHANGED <<frame, at, offered, missed, ended>>
    BY <1>3 DEF HandleRealtime
  <2>2. Good(frame)' = Good(frame) /\ Realtime(frame)' = Realtime(frame)
        /\ PreparationRaises(frame)' = PreparationRaises(frame)
    BY <2>1
  <2>3. ReaderInv'
    BY <1>1, <1>3, <2>1, <2>2 DEF ReaderInv
  <2> QED BY <2>1, <2>3, InHandSteps
<1>4. CASE ~ (WellShaped(frame) /\ ~PreparationRaises(frame))
  <2>1. FrameEnds("handled", offered)
    BY <1>4 DEF HandleRealtime
  <2>2. ReaderInv'
    BY <2>1 DEF FrameEnds, ReaderInv
  <2> QED BY <1>1, <1>2, <1>4, <2>2 DEF ReaderSteps, BadItemSteps, LookUpSteps
<1> QED BY <1>3, <1>4

\* The write of a realtime frame ends.
LEMMA RealtimeEndSteps == ASSUME ReaderInv, RealtimeWritten PROVE ReaderSteps
<1>1. FrameEnds("handled", offered) /\ writing /\ Realtime(frame)
  BY DEF RealtimeWritten
<1>2. handed = Good(frame) /\ ~Timeline(frame) /\ ~States(frame)
  BY <1>1 DEF ReaderInv, Realtime, Timeline, States
<1>3. ReaderInv'
  BY <1>1 DEF FrameEnds, ReaderInv
<1> QED BY <1>2, <1>3 DEF ReaderSteps, BadItemSteps, LookUpSteps

\* A list that has been handled on leaves no good item behind, or ends with it.
LEMMA ListSteps ==
  ASSUME ReaderInv, frame # NoFrame, ~Realtime(frame), NEW asked,
         offered \subseteq asked, asked \subseteq offered \cup {at}, asked \subseteq handed,
         Timeline(frame) => handed \subseteq asked,
         GoOn(NextItem(frame, at + 1), asked)
  PROVE  ReaderSteps
<1>1. /\ ReaderInv'
      /\ \/ FrameEnds("handled", asked)
            /\ \A i \in Good(frame) \ handed :
                  Timeline(frame) /\ \E j \in 1..i : frame.items[j].kind = "not_object"
         \/ frame' = frame /\ ended' = ended
  BY GoneOn
<1>2. CASE frame' = frame /\ ended' = ended
  BY <1>1, <1>2, InHandSteps
<1>3. CASE FrameEnds("handled", asked)
           /\ \A i \in Good(frame) \ handed :
                 Timeline(frame) /\ \E j \in 1..i : frame.items[j].kind = "not_object"
  <2>1. missed' = handed \ asked
    BY <1>3 DEF FrameEnds
  <2>2. States(frame) => handed \subseteq asked
    BY DEF ReaderInv
  <2> QED BY <1>1, <1>3, <2>1, <2>2 DEF ReaderSteps, BadItemSteps, LookUpSteps
<1> QED BY <1>1, <1>2, <1>3

\* The first item of a frame is awaited, or the frame raises before.
LEMMA ItemsSteps == ASSUME ReaderInv, HandleItems PROVE ReaderSteps
<1>1. frame # NoFrame /\ ~writing /\ ~Realtime(frame) /\ handed = {} /\ at = 0 /\ offered = {}
  BY DEF HandleItems, ReaderInv
<1>2. CASE WellShaped(frame)
  <2>1. GoOn(NextItem(frame, at + 1), {})
    BY <1>1, <1>2 DEF HandleItems
  <2> QED BY <1>1, <2>1, ListSteps
<1>3. CASE ~WellShaped(frame)
  <2>1. FrameEnds("handled", offered)
    BY <1>3 DEF HandleItems
  <2>2. ReaderInv' /\ missed' = {}
    BY <1>1, <2>1 DEF FrameEnds, ReaderInv
  <2> QED BY <1>1, <1>3, <2>2 DEF ReaderSteps, BadItemSteps, LookUpSteps
<1> QED BY <1>2, <1>3

\* The write of an item ends, and the next one is awaited.
LEMMA ItemSteps == ASSUME ReaderInv, ItemWritten PROVE ReaderSteps
<1>1. writing /\ ~Realtime(frame) /\ frame # NoFrame
      /\ GoOn(NextItem(frame, at + 1), AskedAfterWrite(at))
  BY DEF ItemWritten, ReaderInv
<1>2. AskedAfterWrite(at) = IF Timeline(frame) THEN offered \cup {at} ELSE offered
  BY DEF AskedAfterWrite
<1>3. /\ at \in handed /\ offered \subseteq handed
      /\ Timeline(frame) => handed \ offered \subseteq {at}
  BY <1>1 DEF ReaderInv
<1> QED BY <1>1, <1>2, <1>3, ListSteps

\* A reader that is cut off misses at most the item it was writing.
LEMMA CutSteps ==
  ASSUME ReaderInv, FrameEnds("cut", offered)
  PROVE  ReaderSteps
<1>1. ReaderInv' /\ ended' = "cut" /\ missed' = handed \ offered
  BY DEF FrameEnds, ReaderInv
<1>2. Timeline(frame) \/ States(frame) => ~Realtime(frame)
  BY DEF Timeline, States, Realtime
<1>3. frame # NoFrame /\ (Timeline(frame) \/ States(frame)) => missed' \subseteq {at}
  BY <1>1, <1>2 DEF ReaderInv
<1> QED BY <1>1, <1>3 DEF ReaderSteps, BadItemSteps, LookUpSteps

\* A restart of the process loses the frame in hand.
LEMMA RestartSteps == ASSUME ReaderInv, Restart PROVE ReaderSteps
<1>1. CASE frame # NoFrame
  BY <1>1, CutSteps DEF Restart
<1>2. CASE frame = NoFrame
  <2>1. FrameEnds(ended, offered)
    BY <1>2 DEF Restart
  <2>2. ReaderInv'
    BY <1>2, <2>1 DEF FrameEnds, ReaderInv
  <2> QED BY <1>2, <2>2 DEF ReaderSteps, BadItemSteps, LookUpSteps
<1> QED BY <1>1, <1>2

\* Every step keeps the reader to its invariant and to both properties.
LEMMA ReaderStep == ReaderInv /\ [Next]_vars => ReaderSteps
<1> SUFFICES ASSUME ReaderInv, [Next]_vars PROVE ReaderSteps
  OBVIOUS
<1>1. CASE FrameArrives
  BY <1>1, ArrivalSteps
<1>2. CASE FrameCut
  BY <1>2, CutSteps DEF FrameCut
<1>3. CASE HandleRealtime
  BY <1>3, RealtimeSteps
<1>4. CASE RealtimeWritten
  BY <1>4, RealtimeEndSteps
<1>5. CASE HandleItems
  BY <1>5, ItemsSteps
<1>6. CASE ItemWritten
  BY <1>6, ItemSteps
<1>7. CASE Restart
  BY <1>7, RestartSteps
<1>8. CASE UNCHANGED reading
  <2>1. UNCHANGED <<frame, writing, at, handed, offered, missed, ended>>
    BY <1>8 DEF reading
  <2>2. ReaderInv'
    <3>1. Good(frame)' = Good(frame) /\ Realtime(frame)' = Realtime(frame)
          /\ PreparationRaises(frame)' = PreparationRaises(frame)
          /\ Timeline(frame)' = Timeline(frame) /\ States(frame)' = States(frame)
      BY <2>1
    <3> QED BY <2>1, <3>1 DEF ReaderInv
  <2> QED BY <2>1, <2>2, InHandSteps
<1>9. CASE DetailWritten \/ ShardRolls \/ Tick \/ Clock \/ UNCHANGED vars
  <2>1. UNCHANGED reading
    BY <1>9 DEF DetailWritten, ShardRolls, Tick, Clock, vars, reading
  <2> QED BY <1>8, <2>1
<1> QED BY <1>1, <1>2, <1>3, <1>4, <1>5, <1>6, <1>7, <1>9 DEF Next

\* The invariant of the reader holds always.
LEMMA ReaderInvariant == Spec => []ReaderInv
<1>1. Init => ReaderInv
  BY DEF Init, ReaderInv
<1>2. ReaderInv /\ [Next]_vars => ReaderInv'
  BY ReaderStep DEF ReaderSteps
<1> QED BY <1>1, <1>2, PTL DEF Spec

\* An item that is no object is skipped alone: a good item of a frame that was handled is
\* lost only to a frame that cannot be prepared, or after a non-object in the timeline.
THEOREM BadItemAlone == Spec => BadItemCostsItself
<1>1. ReaderInv /\ [Next]_vars => [BadItemSteps]_vars
  BY ReaderStep DEF ReaderSteps
<1> QED BY <1>1, ReaderInvariant, PTL DEF Spec, BadItemCostsItself, BadItemSteps

\* Of the events and states that are written, a cancellation leaves at most the one whose
\* write it interrupts without its detail fetch.
THEOREM LookedUp == Spec => WrittenItemsAreLookedUp
<1>1. ReaderInv /\ [Next]_vars => [LookUpSteps]_vars
  BY ReaderStep DEF ReaderSteps
<1> QED BY <1>1, ReaderInvariant, PTL DEF Spec, WrittenItemsAreLookedUp, LookUpSteps

-----------------------------------------------------------------------------
(* The heartbeat *)

\* The constants as numbers, and half of a max age.
LEMMA Windows ==
  /\ MaxAgeLow \in Nat /\ MaxAgeHigh \in Nat /\ 2 <= MaxAgeLow /\ MaxAgeLow <= MaxAgeHigh
  /\ MaxStep \in Nat /\ WriteTimeout \in Nat /\ Stale = MaxAgeHigh + MaxStep + 1
  /\ \A age \in MaxAgeLow..MaxAgeHigh :
        age \in Nat /\ age \div 2 \in Nat /\ 1 <= age \div 2 /\ age \div 2 <= age
BY HeartbeatAssumption, FramesAssumption DEF Stale

\* The settings at the start of the process are clamped into their bounds, but for an
\* interval that is no number.
LEMMA SettingsFit ==
  ASSUME HeartbeatInit
  PROVE  /\ maxAge \in MaxAgeLow..MaxAgeHigh /\ interval \in Nat \ {0} /\ garbled \in BOOLEAN
         /\ ~garbled => interval <= maxAge \div 2
<1>1. PICK rawAge \in RawMaxAges : maxAge = MaxAgeOf(rawAge)
  BY DEF HeartbeatInit
<1>2. rawAge # Garbage => rawAge \in Int
  BY HeartbeatAssumption
<1>3. maxAge \in MaxAgeLow..MaxAgeHigh
  BY <1>1, <1>2, HeartbeatAssumption DEF MaxAgeOf, Clamped, AtMost, AtLeast
<1>4. PICK raw \in RawIntervals : interval = IntervalOf(raw, maxAge) /\ garbled = (raw = Garbage)
  BY DEF HeartbeatInit
<1>5. raw # Garbage => raw \in Int
  BY HeartbeatAssumption
<1>6. maxAge \div 2 \in Nat /\ 1 <= maxAge \div 2
  BY <1>3, Windows
<1>7. CASE raw = Garbage
  BY <1>3, <1>4, <1>7, HeartbeatAssumption DEF IntervalOf
<1>8. CASE raw # Garbage
  <2> DEFINE half == maxAge \div 2
  <2>1. IntervalLimit(maxAge) = AtMost(half, IntervalCap)
    BY <1>6 DEF IntervalLimit, AtLeast
  <2>2. interval = Clamped(raw, 1, AtMost(half, IntervalCap))
    BY <1>4, <1>8, <2>1 DEF IntervalOf
  <2>3. half \in Nat /\ 1 <= half
    BY <1>6
  <2> HIDE DEF half
  <2>4. interval \in Nat \ {0} /\ interval <= half
    BY <1>5, <1>8, <2>2, <2>3, HeartbeatAssumption DEF Clamped, AtMost, AtLeast
  <2> QED BY <1>3, <1>4, <2>4 DEF half
<1> QED BY <1>7, <1>8

\* At the start the file is as old as it may be.
LEMMA HeartStarts == Init => HeartInv
<1> SUFFICES ASSUME Init PROVE HeartInv
  OBVIOUS
<1>1. HeartbeatInit /\ frame = NoFrame /\ cut = FALSE
  BY DEF Init
<1>2. fileAge = Stale /\ beatAge = Stale /\ heard = Stale /\ failed = FALSE /\ stepped = 0
  BY <1>1 DEF HeartbeatInit
<1>3. HeartTypes
  <2>1. failed \in BOOLEAN /\ cut \in BOOLEAN
    BY <1>1, <1>2
  <2>2. fileAge \in 0..Stale /\ beatAge \in 0..Stale /\ heard \in 0..Stale
    BY <1>2, Windows
  <2>3. fileAge \in -MaxStep..Stale /\ beatAge \in -MaxStep..Stale
    BY <2>2, Windows
  <2> QED BY <1>1, <1>2, <2>1, <2>2, <2>3, SettingsFit DEF HeartTypes
<1>4. FileTells
  BY <1>2, Windows DEF FileTells
<1>5. TouchedInTime
  <2>1. maxAge \div 2 \in Nat /\ 1 <= maxAge \div 2
    BY <1>1, SettingsFit, Windows
  <2> QED BY <1>2, <2>1, Windows DEF TouchedInTime
<1> QED BY <1>1, <1>2, <1>3, <1>4, <1>5, SettingsFit, Windows DEF HeartInv, UsableInHand

\* A step that leaves the heartbeat alone, and takes no usable reading out of hand but by
\* cutting it off.
LEMMA HeartRests ==
  ASSUME HeartInv, UNCHANGED <<settings, ages, failed, stepped>>, cut' \in BOOLEAN,
         cut => cut', UsableInHand' => UsableInHand, UsableInHand => UsableInHand' \/ cut'
  PROVE  HeartInv'
<1>1. UNCHANGED <<maxAge, interval, garbled, fileAge, beatAge, heard, failed, stepped>>
  BY DEF settings, ages
<1>2. HeartTypes' /\ FileTells'
  BY <1>1 DEF HeartInv, HeartTypes, FileTells
<1>3. UsableInHand' \/ TouchedInTime'
  BY <1>1 DEF HeartInv, TouchedInTime
<1> QED BY <1>1, <1>2, <1>3 DEF HeartInv

\* A usable reading touches the file, unless half the window has not passed.
LEMMA ArrivalBeats == ASSUME HeartInv, FrameArrives PROVE HeartInv'
<1>1. UNCHANGED <<maxAge, interval, garbled, fileAge, beatAge, failed, stepped>>
  BY DEF FrameArrives, settings
<1>2. frame' # NoFrame /\ ~UsableInHand
  BY FramesAssumption DEF FrameArrives, UsableInHand
<1>3. CASE Usable(frame')
  <2>1. heard' = 0 /\ cut' = FALSE
    BY <1>3 DEF FrameArrives
  <2>2. UsableInHand'
    BY <1>2, <1>3 DEF UsableInHand
  <2>3. HeartTypes'
    <3>1. cut' \in BOOLEAN
      BY <2>1
    <3>2. heard' \in 0..Stale
      BY <2>1, Windows
    <3>3. HeartTypes /\ Stale' = Stale
      BY DEF HeartInv, Stale
    <3> QED BY <1>1, <3>1, <3>2, <3>3 DEF HeartTypes
  <2>4. FileTells'
    <3>1. heard \in Nat /\ heard' = 0
      BY <2>1, Windows DEF HeartInv, HeartTypes
    <3> QED BY <1>1, <3>1, Windows DEF HeartInv, HeartTypes, FileTells
  <2> QED BY <1>1, <2>1, <2>2, <2>3, <2>4, Windows DEF HeartInv
<1>4. CASE ~Usable(frame')
  <2>1. UNCHANGED <<heard, cut>>
    BY <1>4 DEF FrameArrives
  <2>2. ~UsableInHand'
    BY <1>4 DEF UsableInHand
  <2>3. UNCHANGED <<settings, ages, failed, stepped>> /\ cut' \in BOOLEAN
    BY <1>1, <2>1 DEF settings, ages, HeartInv, HeartTypes
  <2> QED BY <1>2, <2>1, <2>2, <2>3, HeartRests
<1> QED BY <1>3, <1>4

\* What TouchHeartbeat does for a usable reading whose write has taken its time.
LEMMA TouchBeats ==
  ASSUME HeartInv, UsableInHand, TouchHeartbeat, ~UsableInHand',
         UNCHANGED <<maxAge, interval, garbled, heard, cut>>
  PROVE  HeartInv'
<1> DEFINE half == maxAge \div 2
<1>1. half \in Nat /\ 1 <= half /\ heard \in Nat /\ heard <= WriteTimeout /\ heard <= Stale
  BY Windows DEF HeartInv, HeartTypes
<1>2. ~garbled => interval <= half
  BY DEF HeartInv
<1>3. half' = half
  OBVIOUS
<1> HIDE DEF half
<1>4. CASE beatAge < interval
  <2>1. UNCHANGED <<fileAge, beatAge, failed, stepped>>
    BY <1>4 DEF TouchHeartbeat, heartbeat
  <2>2. HeartTypes' /\ FileTells'
    BY <2>1 DEF HeartInv, HeartTypes, FileTells
  <2>3. ~failed /\ ~garbled => fileAge <= half - 1
    BY <1>1, <1>2, <1>4, Windows DEF HeartInv, HeartTypes
  <2>4. TouchedInTime'
    BY <1>1, <2>1, <2>3, Windows DEF TouchedInTime, HeartInv, HeartTypes, half
  <2> QED BY <1>2, <1>3, <2>1, <2>2, <2>4 DEF HeartInv, half
<1>5. CASE ~ (beatAge < interval) /\ fileAge' = 0 /\ failed' = FALSE /\ stepped' = 0
  <2>1. beatAge' = 0
    BY <1>5 DEF TouchHeartbeat
  <2>2. HeartTypes'
    <3>1. failed' \in BOOLEAN
      BY <1>5
    <3>2. 0 \in -MaxStep..Stale
      BY Windows
    <3> QED BY <1>5, <2>1, <3>1, <3>2 DEF HeartInv, HeartTypes
  <2>3. FileTells'
    BY <1>1, <1>5, Windows DEF FileTells
  <2>4. TouchedInTime'
    BY <1>1, <1>5 DEF TouchedInTime, half
  <2> QED BY <1>2, <1>3, <1>5, <2>1, <2>2, <2>3, <2>4 DEF HeartInv, half
<1>6. CASE ~ (beatAge < interval) /\ failed' = TRUE /\ UNCHANGED <<fileAge, stepped>>
  <2>1. beatAge' = 0
    BY <1>6 DEF TouchHeartbeat
  <2>2. HeartTypes' /\ FileTells'
    BY <1>6, <2>1, Windows DEF HeartInv, HeartTypes, FileTells
  <2>3. TouchedInTime'
    BY <1>6 DEF TouchedInTime
  <2> QED BY <1>2, <1>3, <1>6, <2>2, <2>3 DEF HeartInv, half
<1> QED BY <1>4, <1>5, <1>6 DEF TouchHeartbeat

\* The write of a reading ends, and the frame with it.
LEMMA RealtimeBeats == ASSUME ReaderInv, HeartInv, RealtimeWritten PROVE HeartInv'
<1>1. frame # NoFrame /\ ~UsableInHand'
  BY DEF RealtimeWritten, FrameEnds, ReaderInv, UsableInHand
<1>2. UNCHANGED <<maxAge, interval, garbled, heard, cut>>
  BY DEF RealtimeWritten, settings
<1>3. CASE Usable(frame)
  <2>1. TouchHeartbeat /\ UsableInHand
    BY <1>1, <1>3 DEF RealtimeWritten, Touches, UsableInHand
  <2> QED BY <1>1, <1>2, <2>1, TouchBeats
<1>4. CASE ~Usable(frame)
  <2>1. UNCHANGED <<settings, ages, failed, stepped>> /\ ~UsableInHand /\ cut' \in BOOLEAN
    BY <1>2, <1>4 DEF RealtimeWritten, Touches, heartbeat, settings, ages, UsableInHand,
                      HeartInv, HeartTypes
  <2> QED BY <1>1, <1>2, <2>1, HeartRests
<1> QED BY <1>3, <1>4

\* A restart forgets the last beat, not the file.
LEMMA RestartBeats == ASSUME HeartInv, Restart PROVE HeartInv'
<1>1. UNCHANGED <<maxAge, interval, garbled, fileAge, failed, stepped, heard>>
      /\ beatAge' = Stale
  BY DEF Restart, ProcessRestarts, settings
<1>2. ~UsableInHand' /\ cut' = (cut \/ UsableInHand)
  BY DEF Restart, FrameEnds, UsableInHand
<1>3. UsableInHand \in BOOLEAN
  BY DEF UsableInHand
<1>4. HeartTypes' /\ FileTells' /\ fileAge <= Stale
  <2>1. cut' \in BOOLEAN
    BY <1>2, <1>3 DEF HeartInv, HeartTypes
  <2> QED BY <1>1, <2>1, Windows DEF HeartInv, HeartTypes, FileTells
<1>5. TouchedInTime'
  <2>1. ~cut' => ~cut /\ TouchedInTime
    BY <1>2 DEF HeartInv
  <2> QED BY <1>1, <2>1 DEF TouchedInTime
<1> QED BY <1>1, <1>2, <1>4, <1>5 DEF HeartInv

\* Time passes for every age alike.
LEMMA TickBeats == ASSUME HeartInv, Tick PROVE HeartInv'
<1> DEFINE half == maxAge \div 2
<1>1. UNCHANGED <<maxAge, interval, garbled, failed, stepped, cut, frame>>
  BY DEF Tick, TimePasses, settings, reading
<1>2. /\ fileAge' = AtMost(fileAge + 1, Stale) /\ beatAge' = AtMost(beatAge + 1, Stale)
      /\ heard' = AtMost(heard + 1, Stale)
  BY DEF Tick, TimePasses
<1>3. UsableInHand' = UsableInHand /\ half' = half
  BY <1>1 DEF UsableInHand
<1>4. half \in Nat /\ 1 <= half
  BY Windows DEF HeartInv, HeartTypes
<1> HIDE DEF half
<1>5. HeartTypes'
  BY <1>1, <1>2, Windows DEF HeartInv, HeartTypes, AtMost
<1>6. FileTells'
  BY <1>1, <1>2, Windows DEF HeartInv, HeartTypes, FileTells, AtMost
<1>7. TouchedInTime => TouchedInTime'
  BY <1>1, <1>2, <1>4, Windows DEF HeartInv, HeartTypes, TouchedInTime, AtMost, half
<1>8. ~failed' => fileAge' <= beatAge'
  BY <1>1, <1>2, Windows DEF HeartInv, HeartTypes, AtMost
<1>9. UsableInHand' => heard' <= WriteTimeout
  BY <1>2, <1>3, Windows DEF Tick, HeartInv, HeartTypes, AtMost
<1> QED BY <1>1, <1>3, <1>5, <1>6, <1>7, <1>8, <1>9 DEF HeartInv, half

\* The wall clock is stepped, and the ages taken from it are off by that.
LEMMA ClockBeats == ASSUME HeartInv, Clock PROVE HeartInv'
<1>1. UNCHANGED <<maxAge, interval, garbled, failed, heard, cut, frame>> /\ stepped = 0
  BY DEF Clock, ClockStepped, settings, reading
<1>2. PICK step \in {-MaxStep, MaxStep} :
          /\ stepped' = step
          /\ fileAge' = AtMost(fileAge + step, Stale)
          /\ beatAge' = AtMost(beatAge + step, Stale)
  BY DEF Clock, ClockStepped
<1>3. UsableInHand' = UsableInHand
  BY <1>1 DEF UsableInHand
<1>4. fileAge \in 0..Stale /\ beatAge \in 0..Stale
  BY <1>1, Windows DEF HeartInv, HeartTypes
<1>5. HeartTypes'
  BY <1>1, <1>2, <1>4, Windows DEF HeartInv, HeartTypes, AtMost
<1>6. FileTells'
  BY <1>1, <1>2, <1>4, Windows DEF HeartInv, HeartTypes, FileTells, AtMost
<1>7. TouchedInTime => TouchedInTime'
  <2>1. stepped' <= 0 => fileAge' <= fileAge /\ fileAge' \in Int
    BY <1>2, <1>4, Windows DEF AtMost
  <2> DEFINE half == maxAge \div 2
  <2>2. half \in Nat /\ heard \in Nat /\ half' = half
    BY <1>1, Windows DEF HeartInv, HeartTypes
  <2> HIDE DEF half
  <2> QED BY <1>1, <1>4, <2>1, <2>2, Windows DEF TouchedInTime, half
<1>8. ~failed' => fileAge' <= beatAge'
  BY <1>1, <1>2, <1>4, Windows DEF HeartInv, AtMost
<1> QED BY <1>1, <1>3, <1>5, <1>6, <1>7, <1>8 DEF HeartInv

\* Every step keeps the file telling when a reading was received.
LEMMA HeartStep == ReaderInv /\ HeartInv /\ [Next]_vars => HeartInv'
<1> SUFFICES ASSUME ReaderInv, HeartInv, [Next]_vars PROVE HeartInv'
  OBVIOUS
<1>0. cut \in BOOLEAN /\ UsableInHand \in BOOLEAN
  BY DEF HeartInv, HeartTypes, UsableInHand
<1>1. CASE FrameArrives
  BY <1>1, ArrivalBeats
<1>2. CASE FrameCut
  <2>1. ~UsableInHand' /\ cut' = (cut \/ UsableInHand)
        /\ UNCHANGED <<settings, ages, failed, stepped>>
    BY <1>2 DEF FrameCut, FrameEnds, UsableInHand
  <2> QED BY <1>0, <2>1, HeartRests
<1>3. CASE RealtimeWritten
  BY <1>3, RealtimeBeats
<1>4. CASE HandleRealtime
  <2>1. UNCHANGED <<settings, ages, failed, stepped, cut>>
    BY <1>4 DEF HandleRealtime
  <2>2. UsableInHand' = UsableInHand
    <3>1. CASE WellShaped(frame) /\ ~PreparationRaises(frame)
      BY <1>4, <3>1 DEF HandleRealtime, UsableInHand
    <3>2. CASE ~ (WellShaped(frame) /\ ~PreparationRaises(frame))
      <4>1. ~UsableInHand
        BY <3>2 DEF UsableInHand, Usable
      <4>2. ~UsableInHand'
        BY <1>4, <3>2 DEF HandleRealtime, FrameEnds, UsableInHand
      <4> QED BY <4>1, <4>2 DEF UsableInHand
    <3> QED BY <3>1, <3>2
  <2> QED BY <1>0, <2>1, <2>2, HeartRests
<1>5. CASE HandleItems \/ ItemWritten
  <2>1. UNCHANGED <<settings, ages, failed, stepped, cut>> /\ ~Realtime(frame)
    BY <1>5 DEF HandleItems, ItemWritten
  <2>2. frame' = frame \/ frame' = NoFrame
    BY <1>5 DEF HandleItems, ItemWritten, GoOn, FrameEnds
  <2>3. ~UsableInHand /\ ~UsableInHand'
    BY <2>1, <2>2 DEF UsableInHand, Usable
  <2> QED BY <1>0, <2>1, <2>3, HeartRests
<1>6. CASE Restart
  BY <1>6, RestartBeats
<1>7. CASE Tick
  BY <1>7, TickBeats
<1>8. CASE Clock
  BY <1>8, ClockBeats
<1>9. CASE DetailWritten \/ ShardRolls \/ UNCHANGED vars
  <2>1. UNCHANGED <<settings, ages, failed, stepped, cut, frame>>
    BY <1>9 DEF DetailWritten, ShardRolls, vars, settings, ages, reading
  <2>2. UsableInHand' = UsableInHand
    BY <2>1 DEF UsableInHand
  <2> QED BY <1>0, <2>1, <2>2, HeartRests
<1> QED BY <1>1, <1>2, <1>3, <1>4, <1>5, <1>6, <1>7, <1>8, <1>9 DEF Next

\* The invariant of the health check holds always.
LEMMA HeartInvariant == Spec => []HeartInv
<1>1. ReaderInv /\ HeartInv /\ [Next]_vars => HeartInv'
  BY HeartStep
<1> QED BY <1>1, HeartStarts, ReaderInvariant, PTL DEF Spec

\* A healthy answer tells of a usable reading: it came within the max age, but for the
\* time of its write and a step of the clock.
THEOREM HealthyTells == Spec => []HealthyMeansUsable
<1>1. HeartInv => HealthyMeansUsable
  BY Windows DEF HeartInv, HeartTypes, FileTells, HealthyMeansUsable, Healthy
<1> QED BY <1>1, HeartInvariant, PTL

\* A collector that has received a usable reading within the last half window shows as
\* healthy, whatever it has done with throttled touches and restarts since.
THEOREM ReceivingHealthy == Spec => []ReceivingStaysHealthy
<1>1. ASSUME HeartInv PROVE ReceivingStaysHealthy
  <2> DEFINE half == maxAge \div 2
  <2>1. half \in Nat /\ maxAge \in Nat /\ fileAge \in Int /\ heard \in Nat
    BY <1>1, Windows DEF HeartInv, HeartTypes
  <2>2. SUFFICES ASSUME frame = NoFrame, heard <= maxAge - half, ~failed, ~garbled,
                        stepped <= 0, ~cut
                 PROVE  fileAge <= maxAge
    BY DEF ReceivingStaysHealthy, Healthy
  <2>3. fileAge <= half - 1 + heard
    BY <1>1, <2>2 DEF HeartInv, TouchedInTime, UsableInHand
  <2> HIDE DEF half
  <2> QED BY <2>1, <2>2, <2>3
<1> QED BY <1>1, HeartInvariant, PTL

-----------------------------------------------------------------------------
(* The shard *)

\* A field is converted in one way.
LEMMA FieldsApart ==
  /\ FloatFields \cap (NumFields \cup ParsedFields \cup WholeFields \cup RawFields) = {}
  /\ NumFields \cap (ParsedFields \cup WholeFields \cup RawFields) = {}
  /\ ParsedFields \cap (WholeFields \cup RawFields) = {}
  /\ WholeFields \cap RawFields = {}
<1>1. FloatFields \cap (NumFields \cup ParsedFields \cup WholeFields \cup RawFields) = {}
  BY DEF FloatFields, NumFields, ParsedFields, WholeFields, RawFields
<1>2. NumFields \cap (ParsedFields \cup WholeFields \cup RawFields) = {}
  BY DEF NumFields, ParsedFields, WholeFields, RawFields
<1>3. ParsedFields \cap (WholeFields \cup RawFields) = {}
  BY DEF ParsedFields, WholeFields, RawFields
<1>4. WholeFields \cap RawFields = {}
  BY DEF WholeFields, RawFields
<1> QED BY <1>1, <1>2, <1>3, <1>4

\* What the conversions make of a kind.
LEMMA Conversions ==
  ASSUME NEW k \in Kinds
  PROVE  /\ TypeOf(k) \in Types \cup {"none", "unwritable"}
         /\ ~FloatRaises(k) => Float(k) \in {"none", "float"}
         /\ Num(k) \in Types \cup {"none", "unwritable"} /\ (k \in Numbers => Num(k) = "float")
         /\ Parsed(k) \in {"none", "float"}
         /\ Whole(k) \in Types \cup {"none", "unwritable"}
         /\ k \in {"whole", "point_zero"} => Whole(k) = "int"
<1>1. TypeOf(k) \in Types \cup {"none", "unwritable"}
  BY DEF Kinds, Numbers, TypeOf, Types
<1>2. ~FloatRaises(k) => Float(k) \in {"none", "float"}
  BY DEF Kinds, Numbers, TypeOf, Float, FloatRaises
<1>3. Num(k) \in Types \cup {"none", "unwritable"} /\ (k \in Numbers => Num(k) = "float")
  BY <1>1 DEF Num, Types
<1>4. Parsed(k) \in {"none", "float"}
  BY DEF Parsed
<1>5. Whole(k) \in Types \cup {"none", "unwritable"}
  BY <1>1 DEF Whole, Types
<1>6. k \in {"whole", "point_zero"} => Whole(k) = "int"
  BY DEF Whole, TypeOf
<1> QED BY <1>1, <1>2, <1>3, <1>4, <1>5, <1>6

\* The type a value goes out with, by the field it is written to.
LEMMA WrittenTypes ==
  ASSUME NEW f \in Fields, NEW k \in Kinds, f \in FloatFields => ~FloatRaises(k)
  PROVE  /\ Written(f, k) \in Types \cup {"none", "unwritable"}
         /\ f \in FloatFields \cup ParsedFields => Written(f, k) \in {"none", "float"}
         /\ f \in NumFields /\ Proper(f, k) => Written(f, k) = "float"
         /\ f \in WholeFields /\ Proper(f, k) => Written(f, k) = "int"
<1>0. {"none", "float"} \subseteq Types \cup {"none", "unwritable"}
  BY DEF Types
<1>1. CASE f \in FloatFields
  <2>1. Written(f, k) = Float(k)
    BY <1>1, FieldsApart DEF Written
  <2> QED BY <1>0, <1>1, <2>1, Conversions, FieldsApart
<1>2. CASE f \in ParsedFields
  <2>1. Written(f, k) = Parsed(k)
    BY <1>2, FieldsApart DEF Written
  <2> QED BY <1>0, <1>2, <2>1, Conversions, FieldsApart
<1>3. CASE f \in NumFields
  <2>1. Written(f, k) = Num(k)
    BY <1>3, FieldsApart DEF Written
  <2> QED BY <1>3, <2>1, Conversions, FieldsApart DEF Proper
<1>4. CASE f \in WholeFields
  <2>1. Written(f, k) = Whole(k)
    BY <1>4, FieldsApart DEF Written
  <2> QED BY <1>4, <2>1, Conversions, FieldsApart DEF Proper
<1>5. CASE f \in RawFields
  <2>1. Written(f, k) = TypeOf(k)
    BY <1>5, FieldsApart DEF Written
  <2> QED BY <1>5, <2>1, Conversions, FieldsApart
<1> QED BY <1>1, <1>2, <1>3, <1>4, <1>5 DEF Fields

\* A point leaves the fields of the shard with the types they are converted to.
LEMMA StoredTyped ==
  ASSUME NEW s, ShardTyped(s), NEW point, IsPoint(point)
  PROVE  ShardTyped(Stored(point, s))
<1> DEFINE out == [f \in DOMAIN point |-> Written(f, point[f])]
           present == {f \in DOMAIN point \cap Watched : out[f] # "none"}
           clash == {f \in present : s.type[f] \notin {"none", out[f]}}
           first == {f \in present : s.type[f] = "none"}
<1>1. /\ s \in [type : [Watched -> Types \cup {"none"}],
                fouled : SUBSET Watched, refused : SUBSET Watched]
      /\ \A f \in Watched : FieldTyped(s, f)
  BY DEF ShardTyped
<1>2. ASSUME NEW f \in DOMAIN point
      PROVE  /\ out[f] \in Types \cup {"none", "unwritable"}
             /\ f \in FloatFields \cup ParsedFields => out[f] \in {"none", "float"}
             /\ f \in NumFields /\ Proper(f, point[f]) => out[f] = "float"
             /\ f \in WholeFields /\ Proper(f, point[f]) => out[f] = "int"
  <2>1. out[f] = Written(f, point[f])
    OBVIOUS
  <2>2. f \in Fields /\ point[f] \in Kinds /\ (f \in FloatFields => ~FloatRaises(point[f]))
    BY DEF IsPoint
  <2> HIDE DEF out
  <2> QED BY <2>1, <2>2, WrittenTypes
<1>3. CASE \E f \in DOMAIN point : out[f] = "unwritable"
  BY <1>3 DEF Stored
<1>4. CASE clash # {} /\ ~ \E f \in DOMAIN point : out[f] = "unwritable"
  <2> DEFINE t == [s EXCEPT !.refused = @ \cup {f \in clash : Proper(f, point[f])}]
  <2>1. Stored(point, s) = t
    BY <1>4 DEF Stored
  <2>2. /\ t.type = s.type /\ t.fouled = s.fouled
        /\ t.refused = s.refused \cup {f \in clash : Proper(f, point[f])}
        /\ t \in [type : [Watched -> Types \cup {"none"}],
                  fouled : SUBSET Watched, refused : SUBSET Watched]
    BY <1>1
  <2>3. ASSUME NEW f \in clash, Proper(f, point[f])
        PROVE  /\ f \notin FloatFields \cup ParsedFields
               /\ f \in NumFields \cup WholeFields => f \in s.fouled
    <3>1. /\ f \in DOMAIN point /\ f \in Watched /\ out[f] # "none"
          /\ s.type[f] \notin {"none", out[f]}
      OBVIOUS
    <3>2. FieldTyped(s, f)
      BY <1>1, <3>1
    <3> HIDE DEF out, clash
    <3> QED BY <1>2, <2>3, <3>1, <3>2 DEF FieldTyped
  <2> HIDE DEF t, clash, out
  <2>4. ASSUME NEW f \in Watched PROVE FieldTyped(t, f)
    <3>1. FieldTyped(s, f)
      BY <1>1
    <3> QED BY <2>2, <2>3, <3>1 DEF FieldTyped
  <2> QED BY <2>1, <2>2, <2>4 DEF ShardTyped
<1>5. CASE clash = {} /\ ~ \E f \in DOMAIN point : out[f] = "unwritable"
  <2> DEFINE type == [f \in Watched |-> IF f \in first THEN out[f] ELSE s.type[f]]
             fouled == s.fouled \cup {f \in first : ~Proper(f, point[f])}
             t == [s EXCEPT !.type = type, !.fouled = fouled]
  <2>1. Stored(point, s) = t
    BY <1>5, <1>1 DEF Stored
  <2>2. \A f \in first : /\ f \in DOMAIN point /\ f \in Watched
                         /\ out[f] # "none" /\ out[f] # "unwritable"
    BY <1>5
  <2>3. \A f \in first : out[f] \in Types
    <3> HIDE DEF out, first
    <3> QED BY <1>2, <2>2
  <2>4. type \in [Watched -> Types \cup {"none"}] /\ fouled \in SUBSET Watched
    <3> HIDE DEF out
    <3> QED BY <1>1, <2>2, <2>3
  <2>5. t.type = type /\ t.fouled = fouled /\ t.refused = s.refused
    <3> HIDE DEF type, fouled
    <3> QED BY <1>1
  <2>6. ASSUME NEW f \in Watched PROVE FieldTyped(t, f)
    <3>1. FieldTyped(s, f)
      BY <1>1
    <3>2. s.fouled \subseteq t.fouled
      BY <2>5
    <3>3. CASE f \in first
      <4>1. t.type[f] = out[f] /\ (~Proper(f, point[f]) => f \in t.fouled)
        <5> HIDE DEF out, first, t
        <5> QED BY <2>5, <3>3
      <4> HIDE DEF out, first, t
      <4> QED BY <1>2, <2>2, <2>5, <3>1, <3>2, <3>3, <4>1 DEF FieldTyped
    <3>4. CASE f \notin first
      <4>1. t.type[f] = s.type[f]
        <5> HIDE DEF out, first, t
        <5> QED BY <2>5, <3>4
      <4> HIDE DEF out, first, t, fouled, type
      <4> QED BY <2>5, <3>1, <3>2, <4>1 DEF FieldTyped
    <3> QED BY <3>3, <3>4
  <2> HIDE DEF type, fouled
  <2>7. t \in [type : [Watched -> Types \cup {"none"}],
               fouled : SUBSET Watched, refused : SUBSET Watched]
    BY <1>1, <2>4
  <2> HIDE DEF t
  <2> QED BY <2>1, <2>6, <2>7 DEF ShardTyped
<1> QED BY <1>3, <1>4, <1>5

\* A set of numbers that has 0, and with each number the next, has them all.
LEMMA NumberInduction ==
  ASSUME NEW Reached, 0 \in Reached, \A n \in Nat : n \in Reached => n + 1 \in Reached
  PROVE  Nat \subseteq Reached
<1> SUFFICES ASSUME Nat \ Reached # {} PROVE FALSE
  OBVIOUS
<1>1. PICK n \in Nat \ Reached : \A m \in Nat \ Reached : n <= m
  BY LeastNumber
<1>2. n # 0 /\ n - 1 \in Nat /\ (n - 1) + 1 = n
  OBVIOUS
<1>3. n - 1 \in Reached
  BY <1>1, <1>2
<1> QED BY <1>1, <1>2, <1>3

\* The recursive function in StoredAll.
After(points, s) ==
    CHOOSE f : f = [i \in 0..Len(points) |-> IF i = 0 THEN s ELSE Stored(points[i], f[i - 1])]

\* The shard after each of the points, one after the other.
LEMMA AfterDefined ==
  ASSUME NEW points, NEW s, Len(points) \in Nat
  PROVE  /\ After(points, s)[0] = s
         /\ \A i \in 1..Len(points) :
               After(points, s)[i] = Stored(points[i], After(points, s)[i - 1])
<1> DEFINE At(f, i) == IF i = 0 THEN s ELSE Stored(points[i], f[i - 1])
           Reached == {n \in Nat : \E f : f = [i \in 0..n |-> At(f, i)]}
<1>1. 0 \in Reached
  <2> DEFINE g == [i \in 0..0 |-> s]
  <2>1. g = [i \in 0..0 |-> At(g, i)]
    OBVIOUS
  <2> QED BY <2>1
<1>2. ASSUME NEW n \in Nat, n \in Reached PROVE n + 1 \in Reached
  <2>1. PICK f : f = [i \in 0..n |-> At(f, i)]
    BY <1>2
  <2> DEFINE g == [i \in 0..(n + 1) |-> IF i = n + 1 THEN At(f, i) ELSE f[i]]
  <2>2. \A i \in 0..n : g[i] = f[i]
    OBVIOUS
  <2>3. \A i \in 0..(n + 1) : At(g, i) = At(f, i)
    BY <2>2
  <2>4. \A i \in 0..n : f[i] = At(f, i)
    BY <2>1
  <2>5. \A i \in 0..(n + 1) : (IF i = n + 1 THEN At(f, i) ELSE f[i]) = At(g, i)
    BY <2>3, <2>4
  <2>6. g = [i \in 0..(n + 1) |-> At(g, i)]
    BY <2>5, Zenon
  <2> HIDE DEF g, At
  <2> QED BY <2>6
<1>3. Nat \subseteq Reached
  <2> HIDE DEF Reached
  <2> QED BY <1>1, <1>2, NumberInduction
<1>4. \E f : f = [i \in 0..Len(points) |-> At(f, i)]
  BY <1>3
<1>5. After(points, s) = [i \in 0..Len(points) |-> At(After(points, s), i)]
  BY <1>4, Zenon DEF After
<1> HIDE DEF Reached
<1>6. \A i \in 0..Len(points) : After(points, s)[i] = At(After(points, s), i)
  <2> HIDE DEF At
  <2> QED BY <1>5
<1> QED BY <1>6

\* A batch leaves the fields with the types they are converted to.
LEMMA StoredAllTyped ==
  ASSUME NEW s, ShardTyped(s), NEW points, Len(points) \in Nat,
         \A i \in 1..Len(points) : IsPoint(points[i])
  PROVE  ShardTyped(StoredAll(points, s))
<1> DEFINE f == After(points, s)
           Reached == {n \in Nat : n <= Len(points) => ShardTyped(f[n])}
<1>1. /\ f[0] = s
      /\ \A i \in 1..Len(points) : f[i] = Stored(points[i], f[i - 1])
  BY AfterDefined
<1>2. StoredAll(points, s) = f[Len(points)]
  BY Zenon DEF StoredAll, After
<1> HIDE DEF f
<1>3. 0 \in Reached
  BY <1>1
<1>4. ASSUME NEW n \in Nat, n \in Reached PROVE n + 1 \in Reached
  <2> SUFFICES ASSUME n + 1 <= Len(points) PROVE ShardTyped(f[n + 1])
    OBVIOUS
  <2>1. n + 1 \in 1..Len(points) /\ (n + 1) - 1 = n
    OBVIOUS
  <2>2. ShardTyped(f[n]) /\ IsPoint(points[n + 1])
    BY <1>4, <2>1
  <2>3. f[n + 1] = Stored(points[n + 1], f[n])
    BY <1>1, <2>1
  <2> QED BY <2>2, <2>3, StoredTyped
<1>5. Nat \subseteq Reached
  <2> HIDE DEF Reached
  <2> QED BY <1>3, <1>4, NumberInduction
<1> QED BY <1>2, <1>5

\* An empty shard has no types yet.
LEMMA EmptyTyped == ShardTyped(EmptyShard)
<1>1. EmptyShard = [type |-> [f \in Watched |-> "none"], fouled |-> {}, refused |-> {}]
  BY DEF EmptyShard
<1>2. EmptyShard \in [type : [Watched -> Types \cup {"none"}],
                      fouled : SUBSET Watched, refused : SUBSET Watched]
  BY <1>1
<1>3. \A f \in Watched : EmptyShard.type[f] = "none" /\ f \notin EmptyShard.refused
  BY <1>1
<1> QED BY <1>2, <1>3 DEF ShardTyped, FieldTyped

\* The batch of a realtime frame that has been prepared.
LEMMA RealtimeTyped ==
  ASSUME NEW f \in FrameSet, ~PreparationRaises(f), NEW s, ShardTyped(s)
  PROVE  ShardTyped(RealtimeStored(f, s))
<1>1. IsPoint(f.mains) /\ (\A i \in DOMAIN f.legs : IsPoint(f.legs[i]))
  BY FramesAssumption DEF PreparationRaises
<1>2. ShardTyped(Stored(f.mains, s))
  BY <1>1, StoredTyped
<1>3. Len(f.legs) \in Nat /\ DOMAIN f.legs = 1..Len(f.legs)
  <2>1. f.legs \in Seq(ToSet(f.legs))
    BY FramesAssumption
  <2> QED BY <2>1, LenProperties
<1>4. ShardTyped(StoredAll(f.legs, Stored(f.mains, s)))
  BY <1>1, <1>2, <1>3, StoredAllTyped
<1> DEFINE points == DevicePoints(f)
           n == Len(f.items)
<1>5. n \in Nat /\ DOMAIN f.items = 1..n
  BY ItemsOf
<1>6. ASSUME NEW i \in 1..n PROVE IsPoint(points[i])
  <2>1. points[i] = IF i \in Good(f) THEN f.items[i].point ELSE <<>>
    BY <1>5 DEF DevicePoints
  <2>2. CASE i \in Good(f)
    BY <1>5, <2>1, <2>2, FramesAssumption DEF Good
  <2>3. CASE i \notin Good(f)
    BY <2>1, <2>3 DEF IsPoint
  <2> QED BY <2>2, <2>3
<1>7. Len(points) = n
  <2>1. points = [i \in 1..n |-> points[i]]
    BY <1>5 DEF DevicePoints
  <2>2. points \in [1..n -> {points[i] : i \in 1..n}]
    <3> HIDE DEF points, n
    <3> QED BY <2>1
  <2>3. points \in Seq({points[i] : i \in 1..n})
    <3> HIDE DEF points, n
    <3> QED BY <1>5, <2>2, SeqDef
  <2>4. DOMAIN points = 1..n /\ DOMAIN points = 1..Len(points) /\ Len(points) \in Nat
    <3> HIDE DEF points, n
    <3> QED BY <2>1, <2>3, LenProperties
  <2> HIDE DEF points, n
  <2> QED BY <1>5, <2>4
<1> HIDE DEF points, n
<1>8. ShardTyped(StoredAll(points, StoredAll(f.legs, Stored(f.mains, s))))
  BY <1>4, <1>5, <1>6, <1>7, StoredAllTyped
<1> QED BY <1>8 DEF RealtimeStored, points

\* A write of points, or a new shard, keeps the types.
LEMMA ShardStep == ReaderInv /\ ShardInv /\ [Next]_vars => ShardInv'
<1> SUFFICES ASSUME ReaderInv, ShardTyped(shard), [Next]_vars PROVE ShardTyped(shard')
  BY DEF ShardInv
<1>1. CASE RealtimeWritten
  <2>1. frame \in FrameSet /\ ~PreparationRaises(frame)
    BY <1>1 DEF RealtimeWritten, ReaderInv
  <2>2. shard' \in {shard, RealtimeStored(frame, shard)}
    BY <1>1 DEF RealtimeWritten
  <2> QED BY <2>1, <2>2, RealtimeTyped
<1>2. CASE ItemWritten
  <2>1. frame \in FrameSet /\ at \in Good(frame)
    BY <1>2 DEF ItemWritten, ReaderInv
  <2>2. IsPoint(frame.items[at].point)
    BY <2>1, FramesAssumption DEF Good
  <2>3. shard' \in {shard, Stored(frame.items[at].point, shard)}
    BY <1>2 DEF ItemWritten
  <2> QED BY <2>2, <2>3, StoredTyped
<1>3. CASE DetailWritten
  <2>1. PICK point \in Details : shard' = Stored(point, shard)
    BY <1>3 DEF DetailWritten
  <2> QED BY <2>1, StoredTyped, FramesAssumption
<1>4. CASE ShardRolls
  BY <1>4, EmptyTyped DEF ShardRolls
<1>5. CASE \/ FrameArrives \/ FrameCut \/ HandleRealtime \/ HandleItems
           \/ Restart \/ Tick \/ Clock \/ UNCHANGED vars
  <2>1. shard' = shard
    BY <1>5 DEF FrameArrives, FrameCut, HandleRealtime, HandleItems, Restart, Tick, Clock, vars
  <2> QED BY <2>1
<1> QED BY <1>1, <1>2, <1>3, <1>4, <1>5 DEF Next

\* The fields keep their types always.
LEMMA ShardInvariant == Spec => []ShardInv
<1>1. Init => ShardInv
  BY EmptyTyped DEF Init, ShardInv
<1>2. ReaderInv /\ ShardInv /\ [Next]_vars => ShardInv'
  BY ShardStep
<1> QED BY <1>1, <1>2, ReaderInvariant, PTL DEF Spec

\* A number is refused for its type only where an improper value has fixed the type of its
\* field in the shard, and never where the field is parsed.
THEOREM FieldsKept == Spec => []NumbersKeepTheirField
<1>1. ASSUME ShardInv PROVE NumbersKeepTheirField
  <2>1. \A f \in shard.refused : f \in Watched /\ FieldTyped(shard, f)
    BY <1>1 DEF ShardInv, ShardTyped
  <2> QED BY <2>1 DEF FieldTyped, NumbersKeepTheirField
<1> QED BY <1>1, ShardInvariant, PTL

\* The reader, the heartbeat and the shard stay in their states.
THEOREM TypeCorrect == Spec => []TypeOK
<1>1. ASSUME ReaderInv, HeartInv, ShardInv PROVE TypeOK
  <2>1. at \in Nat /\ (at > 0 => at \in handed)
    <3>1. CASE writing /\ ~Realtime(frame)
      <4>1. frame \in FrameSet /\ at \in Good(frame) /\ at \in handed
        BY <1>1, <3>1 DEF ReaderInv
      <4>2. Good(frame) \subseteq Nat
        BY <4>1, ItemsOf
      <4> QED BY <4>1, <4>2
    <3>2. CASE ~ (writing /\ ~Realtime(frame))
      BY <1>1, <3>2 DEF ReaderInv
    <3> QED BY <3>1, <3>2
  <2>2. /\ shard.type \in [Watched -> Types \cup {"none"}]
        /\ shard.fouled \subseteq Watched /\ shard.refused \subseteq Watched
    BY <1>1 DEF ShardInv, ShardTyped
  <2>3. HeartTypes
    BY <1>1 DEF HeartInv
  <2> QED BY <1>1, <2>1, <2>2, <2>3 DEF TypeOK, ReaderInv, HeartTypes
<1> QED BY <1>1, ReaderInvariant, HeartInvariant, ShardInvariant, PTL
=============================================================================
