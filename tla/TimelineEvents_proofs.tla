------------------------ MODULE TimelineEvents_proofs ------------------------
(***************************************************************************)
(* Proofs about TimelineEvents: for any devices, events and workers and    *)
(* any sizes of the queues and caches, no event is lost or written twice,  *)
(* and a parked event stays within reach of the fetch that names it.       *)
(***************************************************************************)
EXTENDS TimelineEvents, FiniteSetTheorems, SequenceTheorems, WellFoundedInduction, TLAPS

-----------------------------------------------------------------------------
(* Sequences *)

\* What Append, Head and Tail do to the elements.
LEMMA ElementsIn ==
  ASSUME NEW S, NEW s \in Seq(S)
  PROVE  /\ Len(s) \in Nat /\ DOMAIN s = 1..Len(s)
         /\ ToSet(s) \subseteq S
         /\ s = <<>> <=> Len(s) = 0
         /\ s = <<>> <=> ToSet(s) = {}
<1>1. Len(s) \in Nat /\ DOMAIN s = 1..Len(s) /\ (\A i \in 1..Len(s) : s[i] \in S)
  BY LenProperties, ElementOfSeq
<1>2. s = <<>> <=> Len(s) = 0
  BY EmptySeq
<1>3. ToSet(s) \subseteq S
  BY <1>1 DEF ToSet
<1>4. s = <<>> <=> ToSet(s) = {}
  <2>1. ToSet(s) = {} <=> DOMAIN s = {}
    BY DEF ToSet
  <2>2. DOMAIN s = {} <=> Len(s) = 0
    BY <1>1
  <2> QED BY <1>2, <2>1, <2>2
<1> QED BY <1>1, <1>2, <1>3, <1>4

\* The elements of a sequence with one more at its end.
LEMMA Appended ==
  ASSUME NEW S, NEW s \in Seq(S), NEW e \in S
  PROVE  /\ Append(s, e) \in Seq(S) /\ Len(Append(s, e)) = Len(s) + 1
         /\ \A i \in 1..Len(s) : Append(s, e)[i] = s[i]
         /\ Append(s, e)[Len(s) + 1] = e
         /\ ToSet(Append(s, e)) = ToSet(s) \cup {e}
<1> DEFINE t == Append(s, e)
           n == Len(s)
<1>1. /\ t \in Seq(S) /\ Len(t) = n + 1 /\ (\A i \in 1..n : t[i] = s[i]) /\ t[n + 1] = e
  BY AppendProperties
<1>2. n \in Nat /\ DOMAIN s = 1..n /\ DOMAIN t = 1..(n + 1)
  BY <1>1, LenProperties
<1> HIDE DEF t, n
<1>3. ToSet(t) = ToSet(s) \cup {e}
  <2>1. \A i \in 1..(n + 1) : i \in 1..n \/ i = n + 1
    BY <1>2
  <2>2. n + 1 \in 1..(n + 1) /\ 1..n \subseteq 1..(n + 1)
    BY <1>2
  <2> QED BY <1>1, <1>2, <2>1, <2>2 DEF ToSet
<1> QED BY <1>1, <1>3 DEF t, n

\* The elements of a sequence that is not empty, the first apart.
LEMMA HeadAndTail ==
  ASSUME NEW S, NEW s \in Seq(S), s # <<>>
  PROVE  /\ Head(s) \in S /\ Tail(s) \in Seq(S) /\ Len(Tail(s)) = Len(s) - 1
         /\ Head(s) = s[1] /\ Len(s) >= 1
         /\ \A i \in 1..(Len(s) - 1) : Tail(s)[i] = s[i + 1]
         /\ ToSet(s) = ToSet(Tail(s)) \cup {Head(s)}
<1> DEFINE t == Tail(s)
           n == Len(s)
<1>1. n \in Nat /\ n >= 1 /\ DOMAIN s = 1..n
  BY ElementsIn
<1>2. /\ Head(s) \in S /\ t \in Seq(S) /\ Len(t) = n - 1
      /\ \A i \in 1..Len(t) : t[i] = s[i + 1]
  BY HeadTailProperties
<1>3. Head(s) = s[1]
  OBVIOUS
<1>4. DOMAIN t = 1..(n - 1)
  BY <1>2, LenProperties
<1> HIDE DEF t, n
<1>5. ToSet(s) = ToSet(t) \cup {Head(s)}
  <2>1. \A i \in 1..n : i = 1 \/ (i - 1 \in 1..(n - 1) /\ (i - 1) + 1 = i)
    BY <1>1
  <2>2. 1 \in 1..n /\ \A i \in 1..(n - 1) : i + 1 \in 1..n
    BY <1>1
  <2>3. ToSet(s) \subseteq ToSet(t) \cup {Head(s)}
    <3> SUFFICES ASSUME NEW i \in 1..n PROVE s[i] \in ToSet(t) \cup {Head(s)}
      BY <1>1 DEF ToSet
    <3>1. CASE i = 1
      BY <1>3, <3>1
    <3>2. CASE i # 1
      <4>1. i - 1 \in 1..(n - 1) /\ t[i - 1] = s[i]
        BY <1>2, <2>1, <3>2
      <4> QED BY <1>4, <4>1 DEF ToSet
    <3> QED BY <3>1, <3>2
  <2>4. ToSet(t) \cup {Head(s)} \subseteq ToSet(s)
    <3>1. Head(s) \in ToSet(s)
      BY <1>1, <1>3, <2>2 DEF ToSet
    <3>2. ASSUME NEW i \in 1..(n - 1) PROVE t[i] \in ToSet(s)
      BY <1>1, <1>2, <2>2 DEF ToSet
    <3> QED BY <1>4, <3>1, <3>2 DEF ToSet
  <2> QED BY <2>3, <2>4
<1> QED BY <1>1, <1>2, <1>3, <1>5 DEF t, n

\* A set of numbers has a least.
LEMMA LeastNumber ==
  ASSUME NEW T \in SUBSET Nat, T # {}
  PROVE  \E n \in T : \A m \in T : n <= m
<1>1. PICK n \in T : \A m \in T : ~ (<<m, n>> \in OpToRel(<, Nat))
  BY WFMin, NatLessThanWellFounded
<1>2. ASSUME NEW m \in Nat, m < n PROVE <<m, n>> \in OpToRel(<, Nat)
  BY <1>2, Zenon DEF OpToRel
<1>3. \A m \in T : ~ (m < n)
  BY <1>1, <1>2
<1> QED BY <1>3

\* One sequence is the other with one of an element left out, or with none to leave out.
LessOne(t, s, e) ==
  \E k \in 1..(Len(s) + 1) :
     /\ IF k <= Len(s) THEN s[k] = e /\ Len(t) = Len(s) - 1
        ELSE Len(t) = Len(s) /\ \A i \in 1..Len(s) : s[i] # e
     /\ \A i \in 1..Len(t) :
           IF i < k THEN i \in 1..Len(s) /\ t[i] = s[i]
           ELSE i + 1 \in 1..Len(s) /\ t[i] = s[i + 1]

\* A sequence without the first of some element.
LEMMA WithoutFirst ==
  ASSUME NEW S, NEW s \in Seq(S), NEW e
  PROVE  /\ RemoveFirst(s, e) \in Seq(S)
         /\ Len(RemoveFirst(s, e)) \in Nat /\ Len(RemoveFirst(s, e)) <= Len(s)
         /\ LessOne(RemoveFirst(s, e), s, e)
<1> DEFINE n == Len(s)
           some == {i \in 1..n : s[i] = e}
<1>1. n \in Nat /\ \A j \in 1..n : s[j] \in S
  BY LenProperties, ElementOfSeq
<1>2. CASE some = {}
  <2>1. RemoveFirst(s, e) = s
    BY <1>2 DEF RemoveFirst
  <2>2. /\ n + 1 \in 1..(n + 1) /\ ~ (n + 1 <= n) /\ \A i \in 1..n : i < n + 1
        /\ \A i \in 1..n : s[i] # e
    BY <1>1, <1>2
  <2> DEFINE t == RemoveFirst(s, e)
  <2>3. /\ t \in Seq(S) /\ Len(t) \in Nat /\ Len(t) <= n /\ Len(t) = n
        /\ \A i \in 1..Len(t) : IF i < n + 1 THEN i \in 1..n /\ t[i] = s[i]
                                ELSE i + 1 \in 1..n /\ t[i] = s[i + 1]
    BY <1>1, <2>1, <2>2
  <2> HIDE DEF t
  <2> QED BY <2>2, <2>3 DEF t, n, LessOne
<1>3. CASE some # {}
  <2> DEFINE i == SelectInSeq(s, LAMBDA v : v = e)
  <2>1. RemoveFirst(s, e) = RemoveAt(s, i)
    BY <1>3 DEF RemoveFirst
  <2>2. i = Min(some)
    BY <1>3 DEF SelectInSeq
  <2>3. \E x \in some : \A y \in some : x <= y
    <3>1. some \in SUBSET Nat
      BY <1>1
    <3> HIDE DEF some
    <3> QED BY <1>3, <3>1, LeastNumber
  <2>4. Min(some) \in some
    <3> HIDE DEF some
    <3> QED BY <2>3 DEF Min
  <2>5. i \in 1..n /\ s[i] = e
    BY <2>2, <2>4
  <2> DEFINE before == SubSeq(s, 1, i - 1)
             after == SubSeq(s, i + 1, n)
  <2> HIDE DEF i, n, some
  <2>6. before \in Seq(S) /\ Len(before) = i - 1
    <3>1. \A j \in 1..(i - 1) : s[j] \in S
      BY <1>1, <2>5
    <3>2. 1 \in Int /\ i - 1 \in Int /\ (i - 1) - 1 + 1 = i - 1 /\ i >= 1
      BY <1>1, <2>5
    <3>3. before \in Seq(S) /\ Len(before) = IF 1 <= i - 1 THEN (i - 1) - 1 + 1 ELSE 0
      BY <3>1, <3>2, SubSeqProperties
    <3> QED BY <1>1, <2>5, <3>2, <3>3
  <2>7. after \in Seq(S) /\ Len(after) = n - i
    <3>1. \A j \in (i + 1)..n : s[j] \in S
      BY <1>1, <2>5
    <3>2. i + 1 \in Int /\ n \in Int
      BY <1>1, <2>5
    <3>3. after \in Seq(S) /\ Len(after) = IF i + 1 <= n THEN n - (i + 1) + 1 ELSE 0
      BY <3>1, <3>2, SubSeqProperties
    <3> QED BY <1>1, <2>5, <3>3
  <2>8. RemoveAt(s, i) = before \o after
    BY DEF RemoveAt, n
  <2>9. /\ \A j \in 1..(i - 1) : before[j] = s[j]
        /\ \A j \in 1..(n - i) : after[j] = s[j + i]
    <3>1. ASSUME NEW j \in 1..(i - 1) PROVE before[j] = s[j]
      <4>1. j \in 1..Len(before) /\ 1 + j - 1 = j
        BY <1>1, <2>5, <2>6, <3>1
      <4>2. SubSeq(s, 1, i - 1)[j] = s[1 + j - 1]
        BY <1>1, <2>5, <3>1
      <4> QED BY <4>1, <4>2 DEF before
    <3>2. ASSUME NEW j \in 1..(n - i) PROVE after[j] = s[j + i]
      <4>1. (i + 1) + j - 1 = j + i
        BY <1>1, <2>5, <3>2
      <4>2. SubSeq(s, i + 1, n)[j] = s[(i + 1) + j - 1]
        BY <1>1, <2>5, <3>2
      <4> QED BY <4>1, <4>2 DEF after
    <3> QED BY <3>1, <3>2
  <2> DEFINE t == before \o after
  <2> HIDE DEF before, after
  <2>10. /\ t \in Seq(S) /\ Len(t) = n - 1
         /\ \A j \in 1..(n - 1) : t[j] = IF j <= i - 1 THEN before[j] ELSE after[j - (i - 1)]
    <3>1. /\ t \in Seq(S) /\ Len(t) = Len(before) + Len(after)
          /\ \A j \in 1..Len(before) + Len(after) :
                t[j] = IF j <= Len(before) THEN before[j] ELSE after[j - Len(before)]
      BY <2>6, <2>7, ConcatProperties
    <3>2. (i - 1) + (n - i) = n - 1
      BY <1>1, <2>5
    <3> QED BY <2>6, <2>7, <3>1, <3>2
  <2> HIDE DEF t
  <2>11. n - 1 \in Nat /\ n - 1 <= n /\ i \in 1..(n + 1) /\ i <= n
    BY <1>1, <2>5
  <2>12. ASSUME NEW j \in 1..(n - 1)
         PROVE  IF j < i THEN j \in 1..n /\ t[j] = s[j] ELSE j + 1 \in 1..n /\ t[j] = s[j + 1]
    <3>1. CASE j < i
      <4>1. j \in 1..(i - 1) /\ j <= i - 1 /\ j \in 1..n
        BY <1>1, <2>5, <3>1
      <4> QED BY <2>9, <2>10, <3>1, <4>1
    <3>2. CASE ~ (j < i)
      <4>1. /\ j - (i - 1) \in 1..(n - i) /\ ~ (j <= i - 1) /\ j + 1 \in 1..n
            /\ (j - (i - 1)) + i = j + 1
        BY <1>1, <2>5, <3>2
      <4> QED BY <2>9, <2>10, <3>2, <4>1
    <3> QED BY <3>1, <3>2
  <2>13. RemoveFirst(s, e) = t
    BY <2>1, <2>8 DEF t
  <2> QED BY <2>5, <2>10, <2>11, <2>12, <2>13 DEF n, LessOne
<1> QED BY <1>2, <1>3

\* A sequence without its first element.
LEMMA WithoutHead ==
  ASSUME NEW S, NEW s \in Seq(S)
  PROVE  Tail(s) \in Seq(S) /\ LessOne(Tail(s), s, Head(s))
<1>1. Len(s) \in Nat /\ (s = <<>> <=> Len(s) = 0)
  BY ElementsIn
<1>2. CASE s = <<>>
  <2>1. Tail(s) = <<>> /\ Tail(s) = s /\ 1 \in 1..(Len(s) + 1)
    BY <1>1, <1>2
  <2> QED BY <1>1, <1>2, <2>1 DEF LessOne
<1>3. CASE s # <<>>
  <2> DEFINE t == Tail(s)
  <2>1. /\ t \in Seq(S) /\ Len(t) = Len(s) - 1 /\ s[1] = Head(s)
        /\ \A i \in 1..(Len(s) - 1) : t[i] = s[i + 1]
    BY <1>3, HeadAndTail
  <2> HIDE DEF t
  <2>2. 1 \in 1..(Len(s) + 1) /\ 1 <= Len(s)
    BY <1>1, <1>3
  <2>3. \A i \in 1..Len(t) : ~ (i < 1) /\ i + 1 \in 1..Len(s) /\ t[i] = s[i + 1]
    BY <1>1, <2>1
  <2> QED BY <2>1, <2>2, <2>3 DEF LessOne, t
<1> QED BY <1>2, <1>3

\* The elements of a sequence without its first element.
LEMMA InTail ==
  ASSUME NEW S, NEW s \in Seq(S)
  PROVE  \A i \in 1..Len(Tail(s)) : i + 1 \in 1..Len(s) /\ Tail(s)[i] = s[i + 1]
<1>1. CASE s = <<>>
  <2>1. Tail(s) = <<>>
    BY <1>1
  <2> QED BY <2>1
<1>2. CASE s # <<>>
  <2>1. Len(Tail(s)) = Len(s) - 1 /\ \A i \in 1..(Len(s) - 1) : Tail(s)[i] = s[i + 1]
    BY <1>2, HeadAndTail
  <2> QED BY <2>1, ElementsIn
<1> QED BY <1>1, <1>2

-----------------------------------------------------------------------------
(* Types and bounds *)

\* What parking an event does to the queue of its device: the oldest event makes room.
LEMMA QueueAfterPark ==
  ASSUME TypeOK, NEW e \in Events, NEW popped,
         popped = IF Full(parked[DeviceOf[e]]) THEN {Head(parked[DeviceOf[e]])} ELSE {}
  PROVE  LET q == parked[DeviceOf[e]]
             rest == IF popped = {} THEN q ELSE Tail(q)
         IN  /\ q \in Seq(Events) /\ rest \in Seq(Events) /\ Len(rest) < MaxParked
             /\ popped \subseteq Events
             /\ ToSet(q) = ToSet(rest) \cup popped
             /\ popped # {} => q # <<>> /\ popped = {Head(q)}
<1> DEFINE q == parked[DeviceOf[e]]
           rest == IF popped = {} THEN q ELSE Tail(q)
<1>1. q \in Seq(Events) /\ Len(q) <= MaxParked /\ Len(q) \in Nat /\ MaxParked \in Nat \ {0}
  <2>1. DeviceOf[e] \in Devices
    BY TimelineAssumption
  <2>2. q \in Seq(Events) /\ Len(q) <= MaxParked
    BY <2>1 DEF TypeOK
  <2> HIDE DEF q
  <2> QED BY <2>2, ElementsIn, TimelineAssumption
<1>2. popped = IF Len(q) >= MaxParked THEN {Head(q)} ELSE {}
  BY DEF Full
<1>3. CASE popped = {}
  <2>1. ~ (Len(q) >= MaxParked)
    BY <1>2, <1>3
  <2>2. rest = q
    BY <1>3
  <2> HIDE DEF q, rest
  <2>3. Len(rest) < MaxParked
    BY <1>1, <2>1, <2>2
  <2> QED BY <1>1, <1>3, <2>2, <2>3 DEF q, rest
<1>4. CASE popped # {}
  <2>1. popped = {Head(q)} /\ Len(q) >= MaxParked
    BY <1>2, <1>4
  <2>0. rest = Tail(q)
    BY <1>4
  <2> HIDE DEF q, rest
  <2>2. q # <<>>
    BY <1>1, <2>1, EmptySeq
  <2>3. /\ Head(q) \in Events /\ Tail(q) \in Seq(Events) /\ Len(Tail(q)) = Len(q) - 1
        /\ ToSet(q) = ToSet(Tail(q)) \cup {Head(q)}
    BY <1>1, <2>2, HeadAndTail
  <2>4. rest \in Seq(Events) /\ Len(rest) < MaxParked /\ ToSet(q) = ToSet(rest) \cup popped
    <3>1. ToSet(q) = ToSet(rest) \cup popped
      BY <2>0, <2>1, <2>3, Zenon
    <3>2. Len(rest) = Len(q) - 1
      BY <2>0, <2>3
    <3>3. Len(rest) < MaxParked
      BY <1>1, <3>2
    <3> QED BY <2>0, <2>3, <3>1, <3>3
  <2> QED BY <1>1, <2>1, <2>2, <2>3, <2>4 DEF q, rest
<1> QED BY <1>3, <1>4

\* Parking an event keeps the bounds of both queues.
LEMMA ParkTyped ==
  ASSUME TypeOK, NEW e \in Events, Park(e)
  PROVE  /\ parked' \in [Devices -> Seq(Events)]
         /\ \A d \in Devices : Len(parked'[d]) <= MaxParked
         /\ parkOrder' \in Seq(Devices) /\ Len(parkOrder') <= MaxDevices
         /\ dropped' \in SUBSET Events
<1> DEFINE d == DeviceOf[e]
           evicted == IF parked[d] = <<>> /\ Len(parkOrder) >= MaxDevices
                      THEN {Head(parkOrder)} ELSE {}
           popped == IF Full(parked[d]) THEN {Head(parked[d])} ELSE {}
           rest == IF popped = {} THEN parked[d] ELSE Tail(parked[d])
           order == IF evicted = {} THEN parkOrder ELSE Tail(parkOrder)
           more == IF parked[d] = <<>> THEN <<d>> ELSE <<>>
<1>1. /\ parked' = [c \in Devices |-> IF c = d THEN Append(rest, e)
                                      ELSE IF c \in evicted THEN <<>> ELSE parked[c]]
      /\ parkOrder' = order \o more
      /\ dropped' = dropped \cup popped \cup UNION {ToSet(parked[c]) : c \in evicted}
  BY DEF Park
<1>2. d \in Devices
  BY TimelineAssumption
<1>3. /\ rest \in Seq(Events) /\ Len(rest) < MaxParked /\ popped \subseteq Events
  BY QueueAfterPark
<1>4. /\ parkOrder \in Seq(Devices) /\ Len(parkOrder) <= MaxDevices
      /\ parked \in [Devices -> Seq(Events)] /\ \A c \in Devices : Len(parked[c]) <= MaxParked
      /\ Len(parkOrder) \in Nat /\ MaxDevices \in Nat \ {0} /\ MaxParked \in Nat \ {0}
  BY TimelineAssumption, ElementsIn DEF TypeOK
<1>5. /\ order \in Seq(Devices) /\ Len(order) \in Nat /\ Len(order) <= MaxDevices
      /\ parked[d] = <<>> => Len(order) + 1 <= MaxDevices
      /\ evicted \subseteq Devices
  <2>1. CASE evicted = {}
    <3>1. parked[d] = <<>> => ~ (Len(parkOrder) >= MaxDevices)
      BY <2>1
    <3>2. order = parkOrder
      BY <2>1
    <3> HIDE DEF d, order, evicted
    <3> QED BY <1>4, <2>1, <3>1, <3>2
  <2>2. CASE evicted # {}
    <3>1. evicted = {Head(parkOrder)} /\ order = Tail(parkOrder) /\ Len(parkOrder) >= MaxDevices
      BY <2>2
    <3> HIDE DEF d, evicted, order
    <3>2. parkOrder # <<>>
      BY <1>4, <3>1, EmptySeq
    <3>3. /\ Head(parkOrder) \in Devices /\ Tail(parkOrder) \in Seq(Devices)
          /\ Len(Tail(parkOrder)) = Len(parkOrder) - 1
      BY <1>4, <3>2, HeadAndTail
    <3> QED BY <1>4, <3>1, <3>3
  <2> QED BY <2>1, <2>2
<1> HIDE DEF d, popped, rest, order, evicted
<1>6. parkOrder' \in Seq(Devices) /\ Len(parkOrder') <= MaxDevices
  <2>1. CASE parked[d] = <<>>
    <3>1. more \in Seq(Devices) /\ Len(more) = 1
      BY <1>2, <2>1
    <3>2. order \o more \in Seq(Devices) /\ Len(order \o more) = Len(order) + Len(more)
      <4> HIDE DEF more
      <4> QED BY <1>5, <3>1, ConcatProperties
    <3> HIDE DEF more
    <3> QED BY <1>1, <1>4, <1>5, <2>1, <3>1, <3>2
  <2>2. CASE parked[d] # <<>>
    <3>1. more \in Seq(Devices) /\ Len(more) = 0
      BY <2>2
    <3>2. order \o more \in Seq(Devices) /\ Len(order \o more) = Len(order) + Len(more)
      <4> HIDE DEF more
      <4> QED BY <1>5, <3>1, ConcatProperties
    <3> HIDE DEF more
    <3> QED BY <1>1, <1>4, <1>5, <3>1, <3>2
  <2> QED BY <2>1, <2>2
<1>7. Append(rest, e) \in Seq(Events) /\ Len(Append(rest, e)) <= MaxParked
  BY <1>3, <1>4, Appended, ElementsIn
<1>8. <<>> \in Seq(Events) /\ Len(<<>>) <= MaxParked
  BY <1>4, EmptySeq
<1>9. parked' \in [Devices -> Seq(Events)] /\ \A c \in Devices : Len(parked'[c]) <= MaxParked
  BY <1>1, <1>4, <1>7, <1>8
<1>10. dropped' \in SUBSET Events
  <2>1. \A c \in evicted : ToSet(parked[c]) \subseteq Events
    BY <1>4, <1>5, ElementsIn
  <2>2. dropped \subseteq Events
    BY DEF TypeOK
  <2> QED BY <1>1, <1>3, <2>1, <2>2
<1> QED BY <1>6, <1>9, <1>10

\* A fetch that is asked for is queued or dropped.
LEMMA AskTyped ==
  ASSUME TypeOK, NEW d \in Devices, AskFetch(d)
  PROVE  fetchQueue' \in Seq(Devices) /\ Len(fetchQueue') <= QueueSize
<1>1. fetchQueue \in Seq(Devices) /\ Len(fetchQueue) <= QueueSize /\ Len(fetchQueue) \in Nat
      /\ QueueSize \in Nat
  BY TimelineAssumption, ElementsIn DEF TypeOK
<1>2. Append(fetchQueue, d) \in Seq(Devices) /\ Len(Append(fetchQueue, d)) = Len(fetchQueue) + 1
  BY <1>1, Appended
<1> QED BY <1>1, <1>2 DEF AskFetch

\* A device that is named is in the name cache, which keeps its bound.
LEMMA NamesTyped ==
  ASSUME TypeOK, NEW d \in Devices
  PROVE  /\ NamesWith(d) \in Seq(Devices) /\ Len(NamesWith(d)) <= MaxDevices
         /\ d \in ToSet(NamesWith(d))
<1> DEFINE room == IF Len(names) >= MaxDevices THEN Tail(names) ELSE names
<1>1. names \in Seq(Devices) /\ Len(names) <= MaxDevices /\ Len(names) \in Nat
      /\ MaxDevices \in Nat \ {0}
  BY TimelineAssumption, ElementsIn DEF TypeOK
<1>2. CASE d \in ToSet(names)
  BY <1>1, <1>2 DEF NamesWith
<1>3. CASE d \notin ToSet(names)
  <2>1. room \in Seq(Devices) /\ Len(room) + 1 <= MaxDevices
    <3>1. CASE Len(names) >= MaxDevices
      <4>1. names # <<>>
        BY <1>1, <3>1, EmptySeq
      <4> QED BY <1>1, <3>1, <4>1, HeadAndTail
    <3>2. CASE ~ (Len(names) >= MaxDevices)
      BY <1>1, <3>2
    <3> QED BY <3>1, <3>2
  <2>2. NamesWith(d) = Append(room, d)
    BY <1>3 DEF NamesWith
  <2> HIDE DEF room
  <2> QED BY <2>1, <2>2, Appended
<1> QED BY <1>2, <1>3

\* Each completed write is counted.
LEMMA HandTyped ==
  ASSUME TypeOK, NEW H, Hand(H)
  PROVE  /\ handed' \in [Events -> Nat]
         /\ \A e \in Events : handed'[e] = IF e \in H THEN handed[e] + 1 ELSE handed[e]
BY DEF Hand, TypeOK

\* The steps of the feed and of what else the loop runs for it.
LEMMA FeedTyped ==
  ASSUME TypeOK,
         \/ \E e \in Events : EventArrives(e)
         \/ EventParked \/ EventWritten \/ ReaderCancelled
         \/ \E d \in Devices : StateChanges(d) \/ DeviceListed(d) \/ DetailExpires(d)
  PROVE  TypeOK'
<1>0. Feed \in Workers \cup {Feed, Closer} /\ \A e \in Events : DeviceOf[e] \in Devices
  BY TimelineAssumption
<1>1. ASSUME NEW e \in Events, EventArrives(e) PROVE TypeOK'
  <2>1. /\ arrived' = arrived \cup {e}
        /\ UNCHANGED <<details, pc, target, stopping, names, lock, flushing, closing,
                       handed, aborted, forgotten>>
    BY <1>1 DEF EventArrives
  <2>2. CASE feed' = "writing" /\ inHand' = {e}
             /\ UNCHANGED <<fetchQueue, parkOrder, parked, waiters, dropped>>
    BY <2>1, <2>2 DEF TypeOK, Busy
  <2>3. CASE Park(e) /\ AskFetch(DeviceOf[e]) /\ UNCHANGED <<feed, inHand, waiters>>
    BY <1>0, <2>1, <2>3, ParkTyped, AskTyped DEF TypeOK
  <2>4. CASE feed' = "locking" /\ inHand' = {e} /\ waiters' = Append(waiters, Feed)
             /\ UNCHANGED <<fetchQueue, parkOrder, parked, dropped>>
    <3>1. waiters' \in Seq(Workers \cup {Feed, Closer})
      BY <1>0, <2>4, Appended DEF TypeOK
    <3> QED BY <2>1, <2>4, <3>1 DEF TypeOK, Busy
  <2> QED BY <1>1, <2>2, <2>3, <2>4 DEF EventArrives
<1>2. CASE EventParked
  <2>1. /\ waiters' = Tail(waiters) /\ Head(waiters) = Feed /\ feed' = "idle" /\ inHand' = {}
        /\ UNCHANGED <<details, pc, target, stopping, names, lock, flushing, closing,
                       arrived, handed, aborted, forgotten>>
    BY <1>2 DEF EventParked
  <2>2. PICK e \in inHand : Park(e) /\ AskFetch(DeviceOf[e])
    BY <1>2 DEF EventParked
  <2>3. e \in Events /\ inHand' \in SUBSET Events
    BY <2>1 DEF TypeOK
  <2>4. waiters' \in Seq(Workers \cup {Feed, Closer})
    <3>1. waiters \in Seq(Workers \cup {Feed, Closer})
      BY DEF TypeOK
    <3>2. CASE waiters = <<>>
      <4>1. Tail(waiters) = <<>>
        BY <3>2
      <4> QED BY <2>1, <3>1, <3>2, <4>1
    <3>3. CASE waiters # <<>>
      BY <2>1, <3>1, <3>3, HeadAndTail
    <3> QED BY <3>2, <3>3
  <2> QED BY <1>0, <2>1, <2>2, <2>3, <2>4, ParkTyped, AskTyped DEF TypeOK
<1>3. CASE EventWritten
  <2>1. /\ feed' = "idle" /\ inHand' = {} /\ Hand(inHand)
        /\ UNCHANGED <<details, pc, target, stopping, names, parkOrder, parked, lock, waiters,
                       flushing, closing, arrived, dropped, aborted, forgotten>>
    BY <1>3 DEF EventWritten, storage
  <2>2. PICK e \in inHand : AskFetch(DeviceOf[e])
    BY <1>3 DEF EventWritten
  <2>3. e \in Events /\ inHand' \in SUBSET Events
    BY <2>1 DEF TypeOK
  <2> QED BY <1>0, <2>1, <2>2, <2>3, AskTyped, HandTyped DEF TypeOK
<1>4. CASE ReaderCancelled
  <2>1. /\ stopping' \in {TRUE, stopping} /\ feed' = "idle" /\ inHand' = {}
        /\ aborted' = aborted \cup inHand /\ waiters' = RemoveFirst(waiters, Feed)
        /\ UNCHANGED <<details, fetchQueue, pc, target, names, parkOrder, parked, lock,
                       flushing, closing, arrived, handed, dropped, forgotten>>
    BY <1>4 DEF ReaderCancelled
  <2>2. stopping' \in BOOLEAN
    BY <2>1 DEF TypeOK
  <2>3. waiters' \in Seq(Workers \cup {Feed, Closer})
    BY <2>1, WithoutFirst DEF TypeOK
  <2> QED BY <2>1, <2>2, <2>3 DEF TypeOK
<1>5. ASSUME NEW d \in Devices, StateChanges(d) PROVE TypeOK'
  <2>1. /\ AskFetch(d)
        /\ UNCHANGED <<feed, inHand, details, pc, target, stopping, names, parkOrder, parked,
                       lock, waiters, flushing, closing, arrived, handed, dropped, aborted,
                       forgotten>>
    BY <1>5 DEF StateChanges, storage, histories
  <2> QED BY <2>1, AskTyped DEF TypeOK
<1>6. ASSUME NEW d \in Devices, DeviceListed(d) PROVE TypeOK'
  <2>1. /\ names' = NamesWith(d) /\ Forget
        /\ UNCHANGED <<feed, inHand, details, fetchQueue, pc, target, stopping, parkOrder,
                       parked, lock, waiters, flushing, closing, arrived, handed, dropped,
                       aborted>>
    BY <1>6 DEF DeviceListed, collector
  <2>2. forgotten' \in SUBSET Devices
    BY <2>1, ElementsIn DEF Forget, TypeOK
  <2> QED BY <2>1, <2>2, NamesTyped DEF TypeOK
<1>7. ASSUME NEW d \in Devices, DetailExpires(d) PROVE TypeOK'
  <2>1. /\ details' = details \ {d}
        /\ UNCHANGED <<feed, inHand, fetchQueue, pc, target, stopping, names, parkOrder,
                       parked, lock, waiters, flushing, closing, arrived, handed, dropped,
                       aborted, forgotten>>
    BY <1>7 DEF DetailExpires, storage, histories
  <2> QED BY <2>1 DEF TypeOK
<1> QED BY <1>1, <1>2, <1>3, <1>4, <1>5, <1>6, <1>7

\* Where a worker goes on to once it has the lock.
LEMMA ReleaseTyped ==
  ASSUME TypeOK, NEW w \in Workers, Release(w)
  PROVE  /\ pc' \in [Workers -> {"idle", "fetching", "locking", "releasing", "detail"}]
         /\ lock' \in Workers \cup {Nobody}
BY DEF Release, Goto, TypeOK

\* The steps of a worker.
LEMMA WorkerTyped ==
  ASSUME TypeOK, NEW w \in Workers, WorkerStep(w)
  PROVE  TypeOK'
<1>0. target[w] \in Devices
  BY DEF TypeOK
<1>1. CASE Take(w)
  <2>1. /\ fetchQueue # <<>> /\ fetchQueue' = Tail(fetchQueue)
        /\ target' = [target EXCEPT ![w] = Head(fetchQueue)]
        /\ pc' \in {pc, [pc EXCEPT ![w] = "fetching"]}
        /\ UNCHANGED <<feed, inHand, details, stopping, names, parkOrder, parked, lock, waiters,
                       flushing, closing, arrived, handed, dropped, aborted, forgotten>>
    BY <1>1 DEF Take, Goto, storage, histories
  <2>2. /\ Head(fetchQueue) \in Devices /\ fetchQueue' \in Seq(Devices)
        /\ Len(fetchQueue') <= QueueSize
    <3>1. fetchQueue \in Seq(Devices) /\ Len(fetchQueue) \in Nat /\ Len(fetchQueue) <= QueueSize
          /\ QueueSize \in Nat
      BY TimelineAssumption, ElementsIn DEF TypeOK
    <3>2. /\ Head(fetchQueue) \in Devices /\ Tail(fetchQueue) \in Seq(Devices)
          /\ Len(Tail(fetchQueue)) = Len(fetchQueue) - 1
      BY <2>1, <3>1, HeadAndTail
    <3> QED BY <2>1, <3>1, <3>2
  <2> QED BY <2>1, <2>2 DEF TypeOK
<1>2. CASE FetchFails(w)
  BY <1>2 DEF FetchFails, Goto, storage, histories, TypeOK
<1>3. CASE FetchSucceeds(w)
  <2>1. /\ names' = NamesWith(target[w]) /\ Forget
        /\ UNCHANGED <<feed, inHand, details, fetchQueue, target, stopping, parkOrder, parked,
                       flushing, closing, arrived, handed, dropped, aborted>>
    BY <1>3 DEF FetchSucceeds, NamesOnFetch
  <2>2. forgotten' \in SUBSET Devices
    BY <2>1, ElementsIn DEF Forget, TypeOK
  <2>3. /\ pc' \in [Workers -> {"idle", "fetching", "locking", "releasing", "detail"}]
        /\ lock' \in Workers \cup {Nobody} /\ waiters' \in Seq(Workers \cup {Feed, Closer})
    <3>1. CASE LockFree
      BY <1>3, <3>1, ReleaseTyped DEF FetchSucceeds, TypeOK
    <3>2. CASE ~LockFree
      <4>1. Goto(w, "locking") /\ waiters' = Append(waiters, w) /\ UNCHANGED lock
        BY <1>3, <3>2 DEF FetchSucceeds
      <4>2. waiters' \in Seq(Workers \cup {Feed, Closer})
        BY <4>1, Appended DEF TypeOK
      <4> QED BY <4>1, <4>2 DEF Goto, TypeOK
    <3> QED BY <3>1, <3>2
  <2> QED BY <1>0, <2>1, <2>2, <2>3, NamesTyped DEF TypeOK
<1>4. CASE LockWon(w)
  <2>1. /\ waiters' = Tail(waiters) /\ Release(w)
        /\ UNCHANGED <<feed, inHand, details, fetchQueue, target, stopping, names, parkOrder,
                       parked, flushing, closing, arrived, handed, dropped, aborted, forgotten>>
    BY <1>4 DEF LockWon, histories
  <2>2. waiters' \in Seq(Workers \cup {Feed, Closer})
    <3>1. waiters \in Seq(Workers \cup {Feed, Closer})
      BY DEF TypeOK
    <3>2. CASE waiters = <<>>
      <4>1. Tail(waiters) = <<>>
        BY <3>2
      <4> QED BY <2>1, <3>1, <3>2, <4>1
    <3>3. CASE waiters # <<>>
      BY <2>1, <3>1, <3>3, HeadAndTail
    <3> QED BY <3>2, <3>3
  <2> QED BY <2>1, <2>2, ReleaseTyped DEF TypeOK
<1>5. CASE Released(w)
  <2>1. /\ Hand(ToSet(parked[target[w]])) /\ parked' = [parked EXCEPT ![target[w]] = <<>>]
        /\ parkOrder' = RemoveFirst(parkOrder, target[w]) /\ lock' = Nobody /\ Goto(w, "detail")
        /\ UNCHANGED <<feed, inHand, details, fetchQueue, target, stopping, names, waiters,
                       flushing, closing, arrived, dropped, aborted, forgotten>>
    BY <1>5 DEF Released, ParkedAfterRelease
  <2>2. /\ parked' \in [Devices -> Seq(Events)]
        /\ \A d \in Devices : Len(parked'[d]) <= MaxParked
    BY <1>0, <2>1, EmptySeq, TimelineAssumption DEF TypeOK
  <2>3. parkOrder' \in Seq(Devices) /\ Len(parkOrder') <= MaxDevices
    <3>1. parkOrder \in Seq(Devices) /\ Len(parkOrder) \in Nat /\ Len(parkOrder) <= MaxDevices
          /\ MaxDevices \in Nat
      BY TimelineAssumption, ElementsIn DEF TypeOK
    <3>2. parkOrder' \in Seq(Devices) /\ Len(parkOrder') <= Len(parkOrder)
      BY <2>1, <3>1, WithoutFirst
    <3>3. Len(parkOrder') \in Nat
      BY <3>2, ElementsIn
    <3> QED BY <3>1, <3>2, <3>3
  <2>4. pc' \in [Workers -> {"idle", "fetching", "locking", "releasing", "detail"}]
    BY <2>1 DEF Goto, TypeOK
  <2> QED BY <2>1, <2>2, <2>3, <2>4, HandTyped DEF TypeOK
<1>6. CASE DetailWritten(w)
  <2>1. /\ details' \in {details, details \cup {target[w]}} /\ Goto(w, "idle")
        /\ UNCHANGED <<feed, inHand, fetchQueue, target, stopping, names, parkOrder, parked,
                       lock, waiters, flushing, closing, arrived, handed, dropped, aborted,
                       forgotten>>
    BY <1>6 DEF DetailWritten, storage, histories
  <2> QED BY <1>0, <2>1 DEF Goto, TypeOK
<1> QED BY <1>1, <1>2, <1>3, <1>4, <1>5, <1>6 DEF WorkerStep

\* A cancelled worker.
LEMMA CancelTyped == ASSUME TypeOK, NEW w \in Workers, WorkerCancelled(w) PROVE TypeOK'
<1>1. /\ pc' = [pc EXCEPT ![w] = "idle"] /\ lock' \in {lock, Nobody}
      /\ waiters' = RemoveFirst(waiters, w)
      /\ UNCHANGED <<feed, inHand, details, fetchQueue, target, stopping, names, parkOrder,
                     parked, flushing, closing, arrived, handed, dropped, aborted, forgotten>>
  BY DEF WorkerCancelled, LockAfterCancel, Goto, histories
<1>2. waiters' \in Seq(Workers \cup {Feed, Closer})
  BY <1>1, WithoutFirst DEF TypeOK
<1> QED BY <1>1, <1>2 DEF TypeOK

\* The flush of close(), whatever becomes of those that wait for the lock.
LEMMA FlushTyped ==
  ASSUME TypeOK, Flush, waiters' \in Seq(Workers \cup {Feed, Closer})
  PROVE  TypeOK'
<1>1. UNCHANGED <<feed, inHand, details, fetchQueue, pc, target, stopping, names, lock,
                  arrived, handed, dropped, aborted, forgotten>>
  BY DEF Flush, collector, histories
<1>2. CASE closing' = "raised" /\ UNCHANGED <<flushing, parked, parkOrder>>
  BY <1>1, <1>2 DEF TypeOK
<1>3. CASE /\ flushing' = UNION {ToSet(parked[d]) : d \in Devices}
           /\ parked' = [d \in Devices |-> <<>>] /\ parkOrder' = <<>>
           /\ closing' = IF flushing' = {} THEN "done" ELSE "writing"
  <2>1. flushing' \in SUBSET Events
    <3>1. \A d \in Devices : ToSet(parked[d]) \subseteq Events
      BY ElementsIn DEF TypeOK
    <3> QED BY <1>3, <3>1
  <2>2. closing' \in {"writing", "done"}
    BY <1>3
  <2>3. <<>> \in Seq(Events) /\ <<>> \in Seq(Devices) /\ Len(<<>>) = 0
    BY EmptySeq
  <2>4. parked' \in [Devices -> Seq(Events)] /\ \A d \in Devices : Len(parked'[d]) <= MaxParked
    BY <1>3, <2>3, TimelineAssumption
  <2>5. parkOrder' \in Seq(Devices) /\ Len(parkOrder') <= MaxDevices
    BY <1>3, <2>3, TimelineAssumption
  <2> QED BY <1>1, <2>1, <2>2, <2>4, <2>5 DEF TypeOK
<1> QED BY <1>2, <1>3 DEF Flush, Flushed

\* The steps of close().
LEMMA CloseTyped == ASSUME TypeOK, CloseStep PROVE TypeOK'
<1>0. waiters \in Seq(Workers \cup {Feed, Closer}) /\ Closer \in Workers \cup {Feed, Closer}
  BY DEF TypeOK
<1>1. CASE RestRaises
  BY <1>1 DEF RestRaises, collector, histories, TypeOK
<1>2. CASE CloseReachesFlush
  <2>1. CASE Flush /\ UNCHANGED waiters
    BY <1>0, <2>1, FlushTyped
  <2>2. CASE /\ closing' = "locking" /\ waiters' = Append(waiters, Closer)
             /\ UNCHANGED <<feed, inHand, collector, names, parkOrder, parked, lock, flushing,
                            histories>>
    <3>1. waiters' \in Seq(Workers \cup {Feed, Closer})
      BY <1>0, <2>2, Appended
    <3> QED BY <2>2, <3>1 DEF collector, histories, TypeOK
  <2> QED BY <1>2, <2>1, <2>2 DEF CloseReachesFlush
<1>3. CASE CloseWinsLock
  <2>1. Flush /\ waiters' = Tail(waiters)
    BY <1>3 DEF CloseWinsLock
  <2> QED BY <1>0, <2>1, WithoutHead, FlushTyped
<1>4. CASE FlushEnds
  <2>1. /\ Hand(flushing) /\ flushing' = {} /\ closing' = "done"
        /\ UNCHANGED <<feed, inHand, details, fetchQueue, pc, target, stopping, names,
                       parkOrder, parked, lock, waiters, arrived, dropped, aborted, forgotten>>
    BY <1>4 DEF FlushEnds, collector
  <2> QED BY <2>1, HandTyped DEF TypeOK
<1> QED BY <1>1, <1>2, <1>3, <1>4 DEF CloseStep

\* Every step keeps types and bounds.
LEMMA TypeStep == TypeOK /\ [Next]_vars => TypeOK'
<1> SUFFICES ASSUME TypeOK, [Next]_vars PROVE TypeOK'
  OBVIOUS
<1>1. CASE \E w \in Workers : WorkerStep(w) \/ WorkerCancelled(w)
  BY <1>1, WorkerTyped, CancelTyped
<1>2. CASE CloseStep
  BY <1>2, CloseTyped
<1>3. CASE \/ \E e \in Events : EventArrives(e)
           \/ EventParked \/ EventWritten \/ ReaderCancelled
           \/ \E d \in Devices : StateChanges(d) \/ DeviceListed(d) \/ DetailExpires(d)
  BY <1>3, FeedTyped
<1>4. CASE UNCHANGED vars
  BY <1>4 DEF vars, collector, storage, histories, TypeOK
<1> QED BY <1>1, <1>2, <1>3, <1>4 DEF Next

\* At the start the queues are empty.
LEMMA TypeInit == Init => TypeOK
<1> SUFFICES ASSUME Init PROVE TypeOK
  OBVIOUS
<1>1. <<>> \in Seq(Devices) /\ <<>> \in Seq(Events) /\ <<>> \in Seq(Workers \cup {Feed, Closer})
      /\ Len(<<>>) = 0
  BY EmptySeq
<1>2. stopping \in BOOLEAN /\ closing = "no"
  BY DEF Init
<1>3. parked \in [Devices -> Seq(Events)] /\ \A d \in Devices : Len(parked[d]) <= MaxParked
  BY <1>1, TimelineAssumption DEF Init
<1>4. pc \in [Workers -> {"idle", "fetching", "locking", "releasing", "detail"}]
      /\ handed \in [Events -> Nat]
  BY DEF Init
<1> QED BY <1>1, <1>2, <1>3, <1>4, TimelineAssumption DEF Init, TypeOK

\* The queues keep their bounds, and the tasks are in one of their states.
THEOREM TypeCorrect == Spec => []TypeOK
BY TypeInit, TypeStep, PTL DEF Spec
-----------------------------------------------------------------------------
(* Parked events are within reach                                           *)
(*                                                                          *)
(* Three orders in a worker make it true: the name is cached before the     *)
(* lock is asked for, the lock is first come, first served, and the detail  *)
(* is cached last.                                                          *)

\* An event of the device waits for the lock, to be parked.
Queueing(d) == feed = "locking" /\ \E e \in inHand : DeviceOf[e] = d

\* The feed is ahead of the worker.
Behind(w) ==
  \A j \in 1..Len(waiters) : waiters[j] = w => \E i \in 1..(j - 1) : waiters[i] = Feed

\* From its answer to the end of the fetch the device has its name; once the worker has
\* released the parked events no other follows, nor while it waits behind the feed.
WorkerReaches(w, d) ==
  /\ pc[w] \in {"locking", "releasing", "detail"} => d \in ToSet(names)
  /\ pc[w] = "detail" => parked[d] = <<>>
  /\ pc[w] \in {"releasing", "detail"} => ~ Queueing(d)
  /\ pc[w] = "locking" /\ Queueing(d) => Behind(w)

\* A cached device has a name and nothing parked, and its fetches keep the order.
Reach(d) ==
  /\ d \in details => d \in ToSet(names) /\ parked[d] = <<>> /\ ~ Queueing(d)
  /\ \A w \in Workers : target[w] = d => WorkerReaches(w, d)

\* A worker waits for the lock at one place, and only after its answer.
Waiting ==
  /\ \A i \in 1..Len(waiters) : waiters[i] \in Workers => pc[waiters[i]] = "locking"
  /\ \A i, j \in 1..Len(waiters) :
        waiters[i] \in Workers /\ waiters[i] = waiters[j] => i = j

\* The inductive invariant of ParkedIsReachable.
ReachInv ==
  /\ Waiting
  /\ feed = "locking" => \E i \in 1..Len(waiters) : waiters[i] = Feed
  /\ \A d \in Devices \ (Nameless \cup Odd \cup forgotten) : Reach(d)

\* A name is lost only by being evicted.
LEMMA NamesStay ==
  ASSUME NEW d, d \notin forgotten', Forget, d \in ToSet(names)
  PROVE  d \in ToSet(names')
BY DEF Forget

\* A device that is named keeps its name, unless it is evicted.
LEMMA WorkerKeeps ==
  ASSUME NEW d, NEW v, WorkerReaches(v, d), pc'[v] = pc[v],
         d \in ToSet(names) => d \in ToSet(names'),
         parked[d] = <<>> => parked'[d] = <<>>,
         Queueing(d)' => Queueing(d) /\ (Behind(v) => Behind(v)')
  PROVE  WorkerReaches(v, d)'
BY DEF WorkerReaches

\* What takes no part in the fetch of a device keeps its parked events within reach.
LEMMA ReachKeeps ==
  ASSUME NEW d, Reach(d), UNCHANGED <<pc, target>>, d \in details' => d \in details,
         d \in ToSet(names) => d \in ToSet(names'),
         parked[d] = <<>> => parked'[d] = <<>>,
         Queueing(d)' => /\ Queueing(d)
                         /\ UNCHANGED waiters \/ \A v \in Workers : Behind(v) => Behind(v)'
  PROVE  Reach(d)'
<1>1. ASSUME NEW v \in Workers, target'[v] = d PROVE WorkerReaches(v, d)'
  <2>1. WorkerReaches(v, d)
    BY <1>1 DEF Reach
  <2>2. UNCHANGED waiters => (Behind(v) => Behind(v)')
    BY DEF Behind
  <2>3. pc'[v] = pc[v]
    OBVIOUS
  <2> QED BY <2>1, <2>2, <2>3, WorkerKeeps
<1> QED BY <1>1 DEF Reach

\* One more waits for the lock: a worker that was not waiting, the feed or close().
LEMMA JoinWaits ==
  ASSUME TypeOK, Waiting, NEW x \in Workers \cup {Feed, Closer}, waiters' = Append(waiters, x),
         \A v \in Workers : v # x => pc'[v] = pc[v],
         x \in Workers => pc[x] # "locking" /\ pc'[x] = "locking"
  PROVE  Waiting'
<1>1. /\ Len(waiters) \in Nat
      /\ Len(waiters') = Len(waiters) + 1 /\ waiters'[Len(waiters) + 1] = x
      /\ \A i \in 1..Len(waiters) : waiters'[i] = waiters[i]
  BY ElementsIn, Appended DEF TypeOK
<1>2. \A i \in 1..Len(waiters') : i \in 1..Len(waiters) \/ i = Len(waiters) + 1
  BY <1>1
<1>3. x \in Workers => \A i \in 1..Len(waiters) : waiters[i] # x
  BY DEF Waiting
<1>4. \A i \in 1..Len(waiters) : waiters[i] \in Workers => pc'[waiters[i]] = "locking"
  BY <1>3 DEF Waiting
<1> QED BY <1>1, <1>2, <1>3, <1>4 DEF Waiting

\* One no longer waits for the lock, because it has it or is cancelled.
LEMMA LeaveWaits ==
  ASSUME TypeOK, Waiting, NEW x, LessOne(waiters', waiters, x),
         \A v \in Workers : v # x => pc'[v] = pc[v]
  PROVE  Waiting'
<1>0. Len(waiters) \in Nat
  BY ElementsIn DEF TypeOK
<1>1. PICK k \in 1..(Len(waiters) + 1) :
        /\ IF k <= Len(waiters) THEN waiters[k] = x /\ Len(waiters') = Len(waiters) - 1
           ELSE Len(waiters') = Len(waiters) /\ \A i \in 1..Len(waiters) : waiters[i] # x
        /\ \A i \in 1..Len(waiters') :
              IF i < k THEN i \in 1..Len(waiters) /\ waiters'[i] = waiters[i]
              ELSE i + 1 \in 1..Len(waiters) /\ waiters'[i] = waiters[i + 1]
  BY DEF LessOne
<1> DEFINE from(i) == IF i < k THEN i ELSE i + 1
<1>2. \A i \in 1..Len(waiters') : /\ from(i) \in 1..Len(waiters) /\ from(i) # k
                                  /\ waiters'[i] = waiters[from(i)]
  BY <1>0, <1>1
<1>3. \A i, j \in 1..Len(waiters') : from(i) = from(j) => i = j
  BY <1>0, <1>1
<1> HIDE DEF from
<1>4. \A i \in 1..Len(waiters') : waiters'[i] \in Workers => waiters'[i] # x
  <2> SUFFICES ASSUME NEW i \in 1..Len(waiters'), waiters'[i] \in Workers, waiters'[i] = x
               PROVE  FALSE
    OBVIOUS
  <2>1. waiters[from(i)] = x /\ from(i) \in 1..Len(waiters) /\ from(i) # k
    BY <1>2
  <2>2. k \in 1..Len(waiters) /\ waiters[k] = x
    BY <1>0, <1>1, <2>1
  <2> QED BY <2>1, <2>2 DEF Waiting
<1>5. \A i \in 1..Len(waiters') : waiters'[i] \in Workers => pc'[waiters'[i]] = "locking"
  BY <1>2, <1>4 DEF Waiting
<1>6. \A i, j \in 1..Len(waiters') :
         waiters'[i] \in Workers /\ waiters'[i] = waiters'[j] => i = j
  BY <1>2, <1>3 DEF Waiting
<1> QED BY <1>5, <1>6 DEF Waiting

\* Who joins those that wait comes behind all of them.
LEMMA JoinBehind ==
  ASSUME TypeOK, NEW x \in Workers \cup {Feed, Closer}, waiters' = Append(waiters, x),
         NEW v, v # x, Behind(v)
  PROVE  Behind(v)'
<1>1. /\ Len(waiters) \in Nat
      /\ Len(waiters') = Len(waiters) + 1 /\ waiters'[Len(waiters) + 1] = x
      /\ \A i \in 1..Len(waiters) : waiters'[i] = waiters[i]
  BY ElementsIn, Appended DEF TypeOK
<1> SUFFICES ASSUME NEW j \in 1..Len(waiters'), waiters'[j] = v
             PROVE  \E i \in 1..(j - 1) : waiters'[i] = Feed
  BY DEF Behind
<1>2. j \in 1..Len(waiters) /\ waiters[j] = v
  BY <1>1
<1>3. PICK i \in 1..(j - 1) : waiters[i] = Feed
  BY <1>2 DEF Behind
<1>4. i \in 1..Len(waiters)
  BY <1>1, <1>2, <1>3
<1> QED BY <1>1, <1>3, <1>4

\* When another than the feed leaves them, the feed still waits, ahead of those behind it.
LEMMA LeaveBehind ==
  ASSUME TypeOK, NEW x, x # Feed, LessOne(waiters', waiters, x)
  PROVE  /\ (\E i \in 1..Len(waiters) : waiters[i] = Feed)
            => \E i \in 1..Len(waiters') : waiters'[i] = Feed
         /\ \A v : Behind(v) => Behind(v)'
<1>0. Len(waiters) \in Nat
  BY ElementsIn DEF TypeOK
<1>1. PICK k \in 1..(Len(waiters) + 1) :
        /\ IF k <= Len(waiters) THEN waiters[k] = x /\ Len(waiters') = Len(waiters) - 1
           ELSE Len(waiters') = Len(waiters) /\ \A i \in 1..Len(waiters) : waiters[i] # x
        /\ \A i \in 1..Len(waiters') :
              IF i < k THEN i \in 1..Len(waiters) /\ waiters'[i] = waiters[i]
              ELSE i + 1 \in 1..Len(waiters) /\ waiters'[i] = waiters[i + 1]
  BY DEF LessOne
<1> DEFINE to(i) == IF i < k THEN i ELSE i - 1
<1>2. ASSUME NEW i \in 1..Len(waiters), waiters[i] = Feed
      PROVE  to(i) \in 1..Len(waiters') /\ waiters'[to(i)] = Feed
  <2>1. i # k
    BY <1>0, <1>1, <1>2
  <2>2. CASE i < k
    <3>1. i \in 1..Len(waiters')
      BY <1>0, <1>1, <2>2
    <3> QED BY <1>1, <1>2, <2>2, <3>1
  <2>3. CASE ~ (i < k)
    <3>1. i - 1 \in 1..Len(waiters') /\ ~ (i - 1 < k) /\ (i - 1) + 1 = i
      BY <1>0, <1>1, <2>1, <2>3
    <3> QED BY <1>1, <1>2, <2>3, <3>1
  <2> QED BY <2>2, <2>3
<1>3. ASSUME NEW v, Behind(v), NEW j \in 1..Len(waiters'), waiters'[j] = v
      PROVE  \E i \in 1..(j - 1) : waiters'[i] = Feed
  <2> DEFINE l == IF j < k THEN j ELSE j + 1
  <2>1. l \in 1..Len(waiters) /\ waiters[l] = v
    BY <1>1, <1>3
  <2>2. PICK i \in 1..(l - 1) : waiters[i] = Feed
    <3> HIDE DEF l
    <3> QED BY <1>3, <2>1 DEF Behind
  <2>3. i \in 1..Len(waiters) /\ i # k
    BY <1>0, <1>1, <2>1, <2>2
  <2>4. to(i) \in 1..(j - 1)
    BY <1>0, <1>1, <2>1, <2>2, <2>3
  <2> QED BY <1>2, <2>2, <2>3, <2>4
<1> QED BY <1>2, <1>3 DEF Behind

\* A worker joins those that wait when the lock is not free, and leaves them with the lock.
LEMMA WorkerWaits ==
  ASSUME TypeOK, Waiting, NEW w \in Workers, WorkerStep(w)
  PROVE  Waiting'
<1>1. /\ waiters \in Seq(Workers \cup {Feed, Closer})
      /\ pc \in [Workers -> {"idle", "fetching", "locking", "releasing", "detail"}]
  BY DEF TypeOK
<1>2. CASE /\ UNCHANGED waiters /\ pc[w] # "locking"
           /\ \A v \in Workers : v # w => pc'[v] = pc[v]
  BY <1>2 DEF Waiting
<1>3. CASE FetchSucceeds(w) /\ ~ LockFree
  <2>1. pc[w] = "fetching" /\ pc' = [pc EXCEPT ![w] = "locking"] /\ waiters' = Append(waiters, w)
    BY <1>3 DEF FetchSucceeds, Goto
  <2>2. pc'[w] = "locking" /\ \A v \in Workers : v # w => pc'[v] = pc[v]
    BY <1>1, <2>1
  <2> QED BY <2>1, <2>2, JoinWaits
<1>4. CASE LockWon(w)
  <2>1. /\ Head(waiters) = w /\ waiters' = Tail(waiters)
        /\ \A v \in Workers : v # w => pc'[v] = pc[v]
    BY <1>1, <1>4 DEF LockWon, Release, Goto
  <2> QED BY <1>1, <2>1, WithoutHead, LeaveWaits
<1> QED
  <2>1. CASE Take(w)
    BY <1>1, <1>2, <2>1 DEF Take, Goto, storage
  <2>2. CASE FetchFails(w)
    BY <1>1, <1>2, <2>2 DEF FetchFails, Goto, storage
  <2>3. CASE FetchSucceeds(w) /\ LockFree
    BY <1>1, <1>2, <2>3 DEF FetchSucceeds, Release, Goto
  <2>4. CASE Released(w)
    BY <1>1, <1>2, <2>4 DEF Released, Goto
  <2>5. CASE DetailWritten(w)
    BY <1>1, <1>2, <2>5 DEF DetailWritten, Goto, storage
  <2> QED BY <1>3, <1>4, <2>1, <2>2, <2>3, <2>4, <2>5 DEF WorkerStep

\* An event is parked only while nothing has named its device, so that the fetch which
\* does is still to ask for the lock, or waits for it behind the feed.
LEMMA FeedReaches ==
  ASSUME TypeOK, TypeOK', ReachInv,
         \/ \E e \in Events : EventArrives(e)
         \/ EventParked \/ EventWritten \/ ReaderCancelled
         \/ \E d \in Devices : StateChanges(d) \/ DeviceListed(d) \/ DetailExpires(d)
  PROVE  ReachInv'
<1>0. Feed \in Workers \cup {Feed, Closer} /\ Feed \notin Workers
      /\ \A e \in Events : DeviceOf[e] \in Devices
  BY TimelineAssumption
<1>01. /\ waiters \in Seq(Workers \cup {Feed, Closer}) /\ Len(waiters) \in Nat
       /\ waiters = <<>> <=> Len(waiters) = 0
  BY ElementsIn DEF TypeOK
<1>02. Waiting'
  <2>1. UNCHANGED pc /\ Waiting
    BY DEF EventArrives, EventParked, EventWritten, ReaderCancelled, StateChanges, DeviceListed,
           DetailExpires, collector, ReachInv
  <2>2. \/ UNCHANGED waiters \/ waiters' = Append(waiters, Feed)
        \/ waiters' = Tail(waiters) /\ Head(waiters) = Feed
        \/ waiters' = RemoveFirst(waiters, Feed)
    BY DEF EventArrives, EventParked, EventWritten, ReaderCancelled, StateChanges, DeviceListed,
           DetailExpires, storage
  <2>3. CASE UNCHANGED waiters
    BY <2>1, <2>3 DEF Waiting
  <2>4. CASE waiters' = Append(waiters, Feed)
    BY <1>0, <2>1, <2>4, JoinWaits
  <2>5. CASE LessOne(waiters', waiters, Feed)
    BY <2>1, <2>5, LeaveWaits
  <2> QED BY <1>01, <2>2, <2>3, <2>4, <2>5, WithoutHead, WithoutFirst
<1>1. ASSUME NEW e \in Events, EventArrives(e) PROVE ReachInv'
  <2>1. /\ feed = "idle"
        /\ UNCHANGED <<details, pc, target, names, forgotten>>
    BY <1>1 DEF EventArrives
  <2>2. \A d : ~ Queueing(d)
    BY <2>1 DEF Queueing
  <2>3. CASE feed' = "writing" /\ UNCHANGED <<parked, waiters>>
    <3>1. \A d : ~ Queueing(d)'
      BY <2>3 DEF Queueing
    <3> QED BY <2>1, <1>02, <2>3, <3>1, ReachKeeps DEF ReachInv
  <2>4. CASE IdStandsIn(DeviceOf[e]) /\ Park(e) /\ UNCHANGED <<feed, inHand, waiters>>
    <3>1. \A d : ~ Queueing(d)'
      BY <2>1, <2>4 DEF Queueing
    <3>2. ASSUME NEW d \in Devices \ (Nameless \cup Odd \cup forgotten') PROVE Reach(d)'
      <4>1. Reach(d)
        BY <2>1, <3>2 DEF ReachInv
      <4>2. CASE d = DeviceOf[e]
        <5>1. d \notin details /\ d \notin ToSet(names)
          BY <2>4, <3>2, <4>1, <4>2 DEF IdStandsIn, Reach
        <5>2. \A w \in Workers : target[w] = d => pc[w] \notin {"locking", "releasing", "detail"}
          BY <4>1, <5>1 DEF Reach, WorkerReaches
        <5> QED BY <2>1, <5>1, <5>2 DEF Reach, WorkerReaches
      <4>3. CASE d # DeviceOf[e]
        <5>1. parked[d] = <<>> => parked'[d] = <<>>
          BY <2>4, <4>3 DEF Park
        <5> QED BY <2>1, <3>1, <4>1, <5>1, ReachKeeps
      <4> QED BY <4>2, <4>3
    <3> QED BY <1>02, <2>1, <2>4, <3>2 DEF ReachInv
  <2>5. CASE /\ IdStandsIn(DeviceOf[e]) /\ feed' = "locking" /\ inHand' = {e}
             /\ waiters' = Append(waiters, Feed) /\ UNCHANGED parked
    <3>1. \E i \in 1..Len(waiters') : waiters'[i] = Feed
      <4>1. Len(waiters') = Len(waiters) + 1 /\ waiters'[Len(waiters) + 1] = Feed
        BY <1>0, <1>01, <2>5, Appended
      <4> QED BY <1>01, <4>1
    <3>2. ASSUME NEW d \in Devices \ (Nameless \cup Odd \cup forgotten') PROVE Reach(d)'
      <4>1. Reach(d)
        BY <2>1, <3>2 DEF ReachInv
      <4>2. CASE d = DeviceOf[e]
        <5>1. d \notin details /\ d \notin ToSet(names)
          BY <2>5, <3>2, <4>1, <4>2 DEF IdStandsIn, Reach
        <5>2. \A w \in Workers : target[w] = d => pc[w] \notin {"locking", "releasing", "detail"}
          BY <4>1, <5>1 DEF Reach, WorkerReaches
        <5> QED BY <2>1, <5>1, <5>2 DEF Reach, WorkerReaches
      <4>3. CASE d # DeviceOf[e]
        <5>1. ~ Queueing(d)'
          BY <2>5, <4>3 DEF Queueing
        <5> QED BY <2>1, <2>5, <4>1, <5>1, ReachKeeps
      <4> QED BY <4>2, <4>3
    <3> QED BY <1>02, <3>1, <3>2 DEF ReachInv
  <2> QED BY <1>1, <2>3, <2>4, <2>5 DEF EventArrives
<1>2. CASE EventParked
  <2>1. /\ feed = "locking" /\ feed' = "idle"
        /\ UNCHANGED <<details, pc, target, names, forgotten>>
    BY <1>2 DEF EventParked
  <2>2. PICK e \in inHand : Park(e)
    BY <1>2 DEF EventParked
  <2>3. \A d : ~ Queueing(d)'
    BY <2>1 DEF Queueing
  <2>4. ASSUME NEW d \in Devices \ (Nameless \cup Odd \cup forgotten') PROVE Reach(d)'
    <3>1. Reach(d)
      BY <2>1, <2>4 DEF ReachInv
    <3>2. CASE d = DeviceOf[e]
      <4>1. Queueing(d)
        BY <2>1, <3>2 DEF Queueing
      <4>2. d \notin details
            /\ \A w \in Workers : target[w] = d => pc[w] \notin {"releasing", "detail"}
        BY <3>1, <4>1 DEF Reach, WorkerReaches
      <4>3. \A w \in Workers : target[w] = d => WorkerReaches(w, d)
        BY <3>1 DEF Reach
      <4>4. ASSUME NEW w \in Workers, target'[w] = d PROVE WorkerReaches(w, d)'
        BY <2>1, <2>3, <4>2, <4>3, <4>4 DEF WorkerReaches
      <4> QED BY <2>1, <4>2, <4>4 DEF Reach
    <3>3. CASE d # DeviceOf[e]
      <4>1. parked[d] = <<>> => parked'[d] = <<>>
        BY <2>2, <3>3 DEF Park
      <4> QED BY <2>1, <2>3, <3>1, <4>1, ReachKeeps
    <3> QED BY <3>2, <3>3
  <2> QED BY <1>02, <2>1, <2>4 DEF ReachInv
<1>3. CASE EventWritten \/ ReaderCancelled
  <2>1. feed' = "idle" /\ UNCHANGED <<details, pc, target, names, parked, forgotten>>
    BY <1>3 DEF EventWritten, ReaderCancelled, storage
  <2>2. \A d : ~ Queueing(d)'
    BY <2>1 DEF Queueing
  <2> QED BY <1>02, <2>1, <2>2, ReachKeeps DEF ReachInv
<1>4. ASSUME NEW c \in Devices, StateChanges(c) PROVE ReachInv'
  <2>1. UNCHANGED <<feed, inHand, details, pc, target, names, parked, waiters, forgotten>>
    BY <1>4 DEF StateChanges, storage, histories
  <2>2. \A d : Queueing(d)' => Queueing(d)
    BY <2>1 DEF Queueing
  <2> QED BY <1>02, <2>1, <2>2, ReachKeeps DEF ReachInv
<1>5. ASSUME NEW c \in Devices, DeviceListed(c) PROVE ReachInv'
  <2>1. Forget /\ UNCHANGED <<feed, inHand, details, pc, target, parked, waiters>>
    BY <1>5 DEF DeviceListed, collector
  <2>2. \A d : Queueing(d)' => Queueing(d)
    BY <2>1 DEF Queueing
  <2>3. ASSUME NEW d \in Devices \ (Nameless \cup Odd \cup forgotten') PROVE Reach(d)'
    <3>1. Reach(d)
      BY <2>1, <2>3 DEF ReachInv, Forget
    <3>2. d \in ToSet(names) => d \in ToSet(names')
      BY <2>1, <2>3, NamesStay
    <3> QED BY <2>1, <2>2, <3>1, <3>2, ReachKeeps
  <2> QED BY <1>02, <2>1, <2>3 DEF ReachInv
<1>6. ASSUME NEW c \in Devices, DetailExpires(c) PROVE ReachInv'
  <2>1. /\ details' = details \ {c}
        /\ UNCHANGED <<feed, inHand, pc, target, names, parked, waiters, forgotten>>
    BY <1>6 DEF DetailExpires, storage, histories
  <2>2. \A d : Queueing(d)' => Queueing(d)
    BY <2>1 DEF Queueing
  <2> QED BY <1>02, <2>1, <2>2, ReachKeeps DEF ReachInv
<1> QED BY <1>1, <1>2, <1>3, <1>4, <1>5, <1>6

\* A worker that has won the lock releases what is parked, before it caches the detail.
LEMMA WorkerReachesOn ==
  ASSUME TypeOK, TypeOK', ReachInv, NEW w \in Workers, WorkerStep(w)
  PROVE  ReachInv'
<1>0. /\ target[w] \in Devices /\ Feed # w
      /\ pc \in [Workers -> {"idle", "fetching", "locking", "releasing", "detail"}]
      /\ parked \in [Devices -> Seq(Events)]
  BY TimelineAssumption DEF TypeOK
<1>01. /\ waiters \in Seq(Workers \cup {Feed, Closer}) /\ Len(waiters) \in Nat
       /\ waiters = <<>> <=> Len(waiters) = 0
  BY ElementsIn DEF TypeOK
<1>02. UNCHANGED <<feed, inHand>> /\ \A d : Queueing(d)' => Queueing(d)
  <2>1. UNCHANGED <<feed, inHand>>
    BY DEF WorkerStep, Take, FetchFails, FetchSucceeds, LockWon, Released, DetailWritten
  <2> QED BY <2>1 DEF Queueing
<1>1. CASE Take(w)
  <2>1. /\ pc[w] = "idle" /\ target' = [target EXCEPT ![w] = Head(fetchQueue)]
        /\ pc' \in {pc, [pc EXCEPT ![w] = "fetching"]}
        /\ UNCHANGED <<details, names, parked, waiters, forgotten>>
    BY <1>1 DEF Take, Goto, storage, histories
  <2>2. ASSUME NEW d \in Devices \ (Nameless \cup Odd \cup forgotten') PROVE Reach(d)'
    <3>1. Reach(d)
      BY <2>1, <2>2 DEF ReachInv
    <3>2. ASSUME NEW v \in Workers, target'[v] = d PROVE WorkerReaches(v, d)'
      <4>1. CASE v = w
        <5>1. pc'[v] \notin {"locking", "releasing", "detail"}
          BY <1>0, <2>1, <4>1
        <5> QED BY <5>1 DEF WorkerReaches
      <4>2. CASE v # w
        <5>1. target[v] = d /\ pc'[v] = pc[v]
          BY <1>0, <2>1, <3>2, <4>2 DEF TypeOK
        <5>2. Behind(v) => Behind(v)'
          BY <2>1 DEF Behind
        <5> QED BY <1>02, <2>1, <3>1, <5>1, <5>2, WorkerKeeps DEF Reach
      <4> QED BY <4>1, <4>2
    <3> QED BY <1>02, <2>1, <3>1, <3>2 DEF Reach
  <2> QED BY <1>02, <2>1, <2>2, WorkerWaits DEF ReachInv
<1>2. CASE FetchFails(w)
  <2>1. /\ pc' = [pc EXCEPT ![w] = "idle"]
        /\ UNCHANGED <<details, target, names, parked, waiters, forgotten>>
    BY <1>2 DEF FetchFails, Goto, storage, histories
  <2>2. ASSUME NEW d \in Devices \ (Nameless \cup Odd \cup forgotten') PROVE Reach(d)'
    <3>1. Reach(d)
      BY <2>1, <2>2 DEF ReachInv
    <3>2. ASSUME NEW v \in Workers, target'[v] = d PROVE WorkerReaches(v, d)'
      <4>1. CASE v = w
        <5>1. pc'[v] = "idle"
          BY <1>0, <2>1, <4>1
        <5> QED BY <5>1 DEF WorkerReaches
      <4>2. CASE v # w
        <5>1. target[v] = d /\ pc'[v] = pc[v]
          BY <1>0, <2>1, <3>2, <4>2
        <5>2. Behind(v) => Behind(v)'
          BY <2>1 DEF Behind
        <5> QED BY <1>02, <2>1, <3>1, <5>1, <5>2, WorkerKeeps DEF Reach
      <4> QED BY <4>1, <4>2
    <3> QED BY <1>02, <2>1, <3>1, <3>2 DEF Reach
  <2> QED BY <1>02, <2>1, <2>2, WorkerWaits DEF ReachInv
<1>3. CASE FetchSucceeds(w)
  <2>1. /\ names' = NamesWith(target[w]) /\ Forget
        /\ UNCHANGED <<details, target, parked>>
    BY <1>3 DEF FetchSucceeds, NamesOnFetch
  <2>2. target[w] \in ToSet(names')
    BY <1>0, <2>1, NamesTyped
  <2>3. ASSUME NEW d \in Devices \ (Nameless \cup Odd \cup forgotten')
        PROVE  Reach(d) /\ (d \in ToSet(names) => d \in ToSet(names'))
    <3>1. d \notin forgotten
      BY <2>1, <2>3 DEF Forget
    <3> QED BY <2>1, <2>3, <3>1, NamesStay DEF ReachInv
  <2>4. CASE LockFree
    <3>1. Release(w) /\ UNCHANGED waiters /\ waiters = <<>>
      BY <1>3, <2>4 DEF FetchSucceeds, LockFree
    <3>2. feed # "locking" /\ feed' # "locking"
      BY <1>01, <1>02, <3>1 DEF ReachInv
    <3>3. \A d : ~ Queueing(d)'
      BY <3>2 DEF Queueing
    <3>4. /\ pc' \in {[pc EXCEPT ![w] = "detail"], [pc EXCEPT ![w] = "releasing"]}
          /\ parked[target[w]] # <<>> /\ target[w] \notin Odd
             => pc' = [pc EXCEPT ![w] = "releasing"]
      BY <3>1 DEF Release, Goto
    <3>5. ASSUME NEW d \in Devices \ (Nameless \cup Odd \cup forgotten') PROVE Reach(d)'
      <4>1. ASSUME NEW v \in Workers, target'[v] = d PROVE WorkerReaches(v, d)'
        <5>1. CASE v = w
          <6>1. pc'[v] = "detail" => parked[d] = <<>>
            BY <1>0, <2>1, <3>4, <4>1, <5>1
          <6> QED BY <2>1, <2>2, <3>3, <4>1, <5>1, <6>1 DEF WorkerReaches
        <5>2. CASE v # w
          <6>1. target[v] = d /\ pc'[v] = pc[v]
            BY <1>0, <2>1, <3>4, <4>1, <5>2
          <6>2. Behind(v) => Behind(v)'
            BY <3>1 DEF Behind
          <6> QED BY <1>02, <2>1, <2>3, <6>1, <6>2, WorkerKeeps DEF Reach
        <5> QED BY <5>1, <5>2
      <4>2. Reach(d) /\ (d \in ToSet(names) => d \in ToSet(names'))
        BY <2>3
      <4> QED BY <1>02, <2>1, <4>1, <4>2 DEF Reach
    <3> QED BY <3>2, <3>5, WorkerWaits DEF ReachInv
  <2>5. CASE ~ LockFree
    <3>1. pc' = [pc EXCEPT ![w] = "locking"] /\ waiters' = Append(waiters, w)
      BY <1>3, <2>5 DEF FetchSucceeds, Goto
    <3>2. /\ Len(waiters') = Len(waiters) + 1 /\ waiters'[Len(waiters) + 1] = w
          /\ \A i \in 1..Len(waiters) : waiters'[i] = waiters[i]
      BY <1>01, <3>1, Appended
    <3>3. feed' = "locking" => \E i \in 1..Len(waiters) : waiters[i] = Feed /\ waiters'[i] = Feed
      BY <1>02, <3>2 DEF ReachInv
    <3>4. \A v \in Workers : v # w => (Behind(v) => Behind(v)')
      BY <3>1, JoinBehind
    <3>5. ASSUME NEW d \in Devices \ (Nameless \cup Odd \cup forgotten') PROVE Reach(d)'
      <4>1. ASSUME NEW v \in Workers, target'[v] = d PROVE WorkerReaches(v, d)'
        <5>1. CASE v = w
          <6>1. pc'[v] = "locking" /\ d \in ToSet(names')
            BY <1>0, <2>1, <2>2, <3>1, <4>1, <5>1
          <6>2. ASSUME Queueing(d)' PROVE Behind(v)'
            <7>1. feed' = "locking"
              BY <6>2 DEF Queueing
            <7>2. PICK i \in 1..Len(waiters) : waiters'[i] = Feed
              BY <3>3, <7>1
            <7>3. ASSUME NEW j \in 1..Len(waiters'), waiters'[j] = v PROVE i \in 1..(j - 1)
              <8>1. j \notin 1..Len(waiters)
                BY <1>3, <3>2, <5>1, <7>3 DEF FetchSucceeds, ReachInv, Waiting
              <8> QED BY <1>01, <3>2, <7>2, <8>1
            <7> QED BY <7>2, <7>3 DEF Behind
          <6> QED BY <6>1, <6>2 DEF WorkerReaches
        <5>2. CASE v # w
          <6>1. target[v] = d /\ pc'[v] = pc[v]
            BY <1>0, <2>1, <3>1, <4>1, <5>2
          <6> QED BY <1>02, <2>1, <2>3, <3>4, <5>2, <6>1, WorkerKeeps DEF Reach
        <5> QED BY <5>1, <5>2
      <4>2. Reach(d) /\ (d \in ToSet(names) => d \in ToSet(names'))
        BY <2>3
      <4> QED BY <1>02, <2>1, <4>1, <4>2 DEF Reach
    <3>6. feed' = "locking" => \E i \in 1..Len(waiters') : waiters'[i] = Feed
      BY <1>01, <3>2, <3>3
    <3> QED BY <3>5, <3>6, WorkerWaits DEF ReachInv
  <2> QED BY <2>4, <2>5
<1>4. CASE LockWon(w)
  <2>1. /\ pc[w] = "locking" /\ Head(waiters) = w /\ waiters' = Tail(waiters) /\ Release(w)
        /\ UNCHANGED <<details, target, names, parked, forgotten>>
    BY <1>4 DEF LockWon, histories
  <2>2. /\ pc' \in {[pc EXCEPT ![w] = "detail"], [pc EXCEPT ![w] = "releasing"]}
        /\ parked[target[w]] # <<>> /\ target[w] \notin Odd
           => pc' = [pc EXCEPT ![w] = "releasing"]
    BY <2>1 DEF Release, Goto
  <2>3. LessOne(waiters', waiters, w)
    BY <1>01, <2>1, WithoutHead
  <2>4. feed = "locking" => \E i \in 1..Len(waiters') : waiters'[i] = Feed
    BY <1>0, <2>3, LeaveBehind DEF ReachInv
  <2>5. \A v : Behind(v) => Behind(v)'
    BY <1>0, <2>3, LeaveBehind
  <2>6. \A d \in Devices \ (Nameless \cup Odd \cup forgotten) : target[w] = d => ~ Queueing(d)
    <3> SUFFICES ASSUME NEW d \in Devices \ (Nameless \cup Odd \cup forgotten),
                        target[w] = d, Queueing(d)
                 PROVE  FALSE
      OBVIOUS
    <3>1. feed = "locking" /\ Behind(w)
      BY <2>1 DEF Queueing, ReachInv, Reach, WorkerReaches
    <3>2. 1 \in 1..Len(waiters) /\ waiters[1] = w
      <4>1. waiters # <<>>
        BY <1>01, <3>1 DEF ReachInv
      <4> QED BY <1>01, <2>1, <4>1, HeadAndTail
    <3> QED BY <3>1, <3>2 DEF Behind
  <2>7. ASSUME NEW d \in Devices \ (Nameless \cup Odd \cup forgotten') PROVE Reach(d)'
    <3>1. Reach(d)
      BY <2>1, <2>7 DEF ReachInv
    <3>2. ASSUME NEW v \in Workers, target'[v] = d PROVE WorkerReaches(v, d)'
      <4>1. CASE v = w
        <5>1. ~ Queueing(d)'
          BY <1>02, <2>1, <2>6, <2>7, <3>2, <4>1
        <5>2. d \in ToSet(names')
          BY <2>1, <3>1, <3>2, <4>1 DEF Reach, WorkerReaches
        <5>3. pc'[v] = "detail" => parked'[d] = <<>>
          BY <1>0, <2>1, <2>2, <3>2, <4>1
        <5> QED BY <5>1, <5>2, <5>3 DEF WorkerReaches
      <4>2. CASE v # w
        <5>1. target[v] = d /\ pc'[v] = pc[v]
          BY <1>0, <2>1, <2>2, <3>2, <4>2
        <5>2. Queueing(d)' => Queueing(d) /\ (Behind(v) => Behind(v)')
          BY <1>02, <2>5 DEF Queueing
        <5> QED BY <2>1, <3>1, <5>1, <5>2, WorkerKeeps DEF Reach
      <4> QED BY <4>1, <4>2
    <3> QED BY <1>02, <2>1, <3>1, <3>2 DEF Reach
  <2> QED BY <1>02, <2>4, <2>7, WorkerWaits DEF ReachInv
<1>5. CASE Released(w)
  <2>1. /\ pc[w] = "releasing" /\ pc' = [pc EXCEPT ![w] = "detail"]
        /\ parked' = [parked EXCEPT ![target[w]] = <<>>]
        /\ UNCHANGED <<details, target, names, waiters, forgotten>>
    BY <1>5 DEF Released, ParkedAfterRelease, Goto
  <2>2. \A v : Behind(v) => Behind(v)'
    BY <2>1 DEF Behind
  <2>3. \A d \in Devices : parked[d] = <<>> \/ d = target[w] => parked'[d] = <<>>
    BY <1>0, <2>1
  <2>4. ASSUME NEW d \in Devices \ (Nameless \cup Odd \cup forgotten') PROVE Reach(d)'
    <3>1. Reach(d)
      BY <2>1, <2>4 DEF ReachInv
    <3>2. ASSUME NEW v \in Workers, target'[v] = d PROVE WorkerReaches(v, d)'
      <4>1. CASE v = w
        <5>1. WorkerReaches(w, d) /\ target[w] = d
          BY <2>1, <3>1, <3>2, <4>1 DEF Reach
        <5>2. pc'[w] = "detail"
          BY <1>0, <2>1
        <5> QED BY <1>02, <2>1, <2>3, <4>1, <5>1, <5>2 DEF WorkerReaches
      <4>2. CASE v # w
        <5>1. target[v] = d /\ pc'[v] = pc[v]
          BY <1>0, <2>1, <3>2, <4>2
        <5> QED BY <1>02, <2>1, <2>2, <2>3, <3>1, <5>1, WorkerKeeps DEF Reach
      <4> QED BY <4>1, <4>2
    <3> QED BY <1>02, <2>1, <2>3, <3>1, <3>2 DEF Reach
  <2> QED BY <1>02, <2>1, <2>4, WorkerWaits DEF ReachInv
<1>6. CASE DetailWritten(w)
  <2>1. /\ pc[w] = "detail" /\ pc' = [pc EXCEPT ![w] = "idle"]
        /\ details' \subseteq details \cup {target[w]}
        /\ UNCHANGED <<target, names, parked, waiters, forgotten>>
    BY <1>6 DEF DetailWritten, Goto, storage, histories
  <2>2. \A v : Behind(v) => Behind(v)'
    BY <2>1 DEF Behind
  <2>3. ASSUME NEW d \in Devices \ (Nameless \cup Odd \cup forgotten') PROVE Reach(d)'
    <3>1. Reach(d)
      BY <2>1, <2>3 DEF ReachInv
    <3>2. ASSUME NEW v \in Workers, target'[v] = d PROVE WorkerReaches(v, d)'
      <4>1. CASE v = w
        <5>1. pc'[v] = "idle"
          BY <1>0, <2>1, <4>1
        <5> QED BY <5>1 DEF WorkerReaches
      <4>2. CASE v # w
        <5>1. target[v] = d /\ pc'[v] = pc[v]
          BY <1>0, <2>1, <3>2, <4>2
        <5> QED BY <1>02, <2>1, <2>2, <3>1, <5>1, WorkerKeeps DEF Reach
      <4> QED BY <4>1, <4>2
    <3>3. ASSUME d \in details' PROVE d \in ToSet(names') /\ parked'[d] = <<>> /\ ~ Queueing(d)'
      <4>1. CASE d \in details
        BY <1>02, <2>1, <3>1, <4>1 DEF Reach
      <4>2. CASE d = target[w]
        BY <1>02, <2>1, <3>1, <4>2 DEF Reach, WorkerReaches
      <4> QED BY <2>1, <3>3, <4>1, <4>2
    <3> QED BY <3>2, <3>3 DEF Reach
  <2> QED BY <1>02, <2>1, <2>3, WorkerWaits DEF ReachInv
<1> QED BY <1>1, <1>2, <1>3, <1>4, <1>5, <1>6 DEF WorkerStep

\* The start: nothing waits and nothing is cached.
LEMMA ReachInit == Init => ReachInv
<1> SUFFICES ASSUME Init PROVE ReachInv
  OBVIOUS
<1>1. Waiting
  BY DEF Init, Waiting
<1>2. ASSUME NEW d \in Devices PROVE Reach(d)
  BY DEF Init, Reach, WorkerReaches
<1> QED BY <1>1, <1>2 DEF Init, ReachInv

\* A cancelled worker leaves those that wait, and the fetch it was about.
LEMMA CancelReaches ==
  ASSUME TypeOK, ReachInv, NEW w \in Workers, WorkerCancelled(w)
  PROVE  ReachInv'
<1>0. /\ Feed # w /\ waiters \in Seq(Workers \cup {Feed, Closer})
      /\ pc \in [Workers -> {"idle", "fetching", "locking", "releasing", "detail"}]
  BY TimelineAssumption DEF TypeOK
<1>1. /\ pc' = [pc EXCEPT ![w] = "idle"] /\ waiters' = RemoveFirst(waiters, w)
      /\ UNCHANGED <<feed, inHand, details, target, names, parked, forgotten>>
  BY DEF WorkerCancelled, Goto, histories
<1>2. LessOne(waiters', waiters, w)
  BY <1>0, <1>1, WithoutFirst
<1>3. /\ feed = "locking" => \E i \in 1..Len(waiters') : waiters'[i] = Feed
      /\ \A v : Behind(v) => Behind(v)'
  BY <1>0, <1>2, LeaveBehind DEF ReachInv
<1>4. Waiting'
  <2>1. \A v \in Workers : v # w => pc'[v] = pc[v]
    BY <1>0, <1>1
  <2> QED BY <1>2, <2>1, LeaveWaits DEF ReachInv
<1>5. \A d : Queueing(d)' => Queueing(d)
  BY <1>1 DEF Queueing
<1>6. ASSUME NEW d \in Devices \ (Nameless \cup Odd \cup forgotten') PROVE Reach(d)'
  <2>1. Reach(d)
    BY <1>1, <1>6 DEF ReachInv
  <2>2. ASSUME NEW v \in Workers, target'[v] = d PROVE WorkerReaches(v, d)'
    <3>1. CASE v = w
      <4>1. pc'[v] = "idle"
        BY <1>0, <1>1, <3>1
      <4> QED BY <4>1 DEF WorkerReaches
    <3>2. CASE v # w
      <4>1. target[v] = d /\ pc'[v] = pc[v]
        BY <1>0, <1>1, <2>2, <3>2
      <4> QED BY <1>1, <1>3, <1>5, <2>1, <4>1, WorkerKeeps DEF Reach
    <3> QED BY <3>1, <3>2
  <2> QED BY <1>1, <1>5, <2>1, <2>2 DEF Reach
<1> QED BY <1>1, <1>3, <1>4, <1>6 DEF ReachInv

\* close() parks nothing, and waits for the lock like the others.
LEMMA CloseReaches ==
  ASSUME TypeOK, ReachInv, CloseStep
  PROVE  ReachInv'
<1>0. /\ waiters \in Seq(Workers \cup {Feed, Closer}) /\ Len(waiters) \in Nat
      /\ Closer # Feed /\ Closer \notin Workers /\ Closer \in Workers \cup {Feed, Closer}
  BY TimelineAssumption, ElementsIn DEF TypeOK
<1>1. /\ UNCHANGED <<feed, inHand, details, pc, target, names, forgotten>>
      /\ \A d \in Devices : parked[d] = <<>> => parked'[d] = <<>>
  BY DEF CloseStep, RestRaises, CloseReachesFlush, CloseWinsLock, FlushEnds, Flush, collector,
         histories
<1>2. \/ UNCHANGED waiters \/ waiters' = Append(waiters, Closer)
      \/ LessOne(waiters', waiters, Closer)
  BY <1>0, WithoutHead
  DEF CloseStep, RestRaises, CloseReachesFlush, CloseWinsLock, FlushEnds
<1>3. Waiting'
  <2>1. CASE UNCHANGED waiters
    BY <1>1, <2>1 DEF ReachInv, Waiting
  <2>2. CASE waiters' = Append(waiters, Closer)
    BY <1>0, <1>1, <2>2, JoinWaits DEF ReachInv
  <2>3. CASE LessOne(waiters', waiters, Closer)
    BY <1>1, <2>3, LeaveWaits DEF ReachInv
  <2> QED BY <1>2, <2>1, <2>2, <2>3
<1>4. /\ feed' = "locking" => \E i \in 1..Len(waiters') : waiters'[i] = Feed
      /\ \A v \in Workers : Behind(v) => Behind(v)'
  <2>1. CASE UNCHANGED waiters
    BY <1>1, <2>1 DEF ReachInv, Behind
  <2>2. CASE waiters' = Append(waiters, Closer)
    <3>1. /\ Len(waiters') = Len(waiters) + 1
          /\ \A i \in 1..Len(waiters) : waiters'[i] = waiters[i]
      BY <1>0, <2>2, Appended
    <3>2. feed' = "locking" => \E i \in 1..Len(waiters') : waiters'[i] = Feed
      BY <1>0, <1>1, <3>1 DEF ReachInv
    <3>3. \A v \in Workers : v # Closer
      BY <1>0
    <3> QED BY <1>0, <2>2, <3>2, <3>3, JoinBehind
  <2>3. CASE LessOne(waiters', waiters, Closer)
    BY <1>0, <1>1, <2>3, LeaveBehind DEF ReachInv
  <2> QED BY <1>2, <2>1, <2>2, <2>3
<1>5. \A d : Queueing(d)' => Queueing(d)
  BY <1>1 DEF Queueing
<1>6. \A d \in Devices \ (Nameless \cup Odd \cup forgotten') : Reach(d)'
  BY <1>1, <1>4, <1>5, ReachKeeps DEF ReachInv
<1> QED BY <1>3, <1>4, <1>6 DEF ReachInv

\* Every step keeps the order of name, lock and cache.
LEMMA ReachStep == TypeOK /\ TypeOK' /\ ReachInv /\ [Next]_vars => ReachInv'
<1> SUFFICES ASSUME TypeOK, TypeOK', ReachInv, [Next]_vars PROVE ReachInv'
  OBVIOUS
<1>1. CASE \E w \in Workers : WorkerStep(w) \/ WorkerCancelled(w)
  BY <1>1, WorkerReachesOn, CancelReaches
<1>2. CASE CloseStep
  BY <1>2, CloseReaches
<1>3. CASE \/ \E e \in Events : EventArrives(e)
           \/ EventParked \/ EventWritten \/ ReaderCancelled
           \/ \E d \in Devices : StateChanges(d) \/ DeviceListed(d) \/ DetailExpires(d)
  BY <1>3, FeedReaches
<1>4. CASE UNCHANGED vars
  <2>1. /\ UNCHANGED <<feed, inHand, details, pc, target, names, waiters, forgotten>>
        /\ UNCHANGED parked
    BY <1>4 DEF vars, collector, storage, histories
  <2>2. \A d : Queueing(d)' => Queueing(d)
    BY <2>1 DEF Queueing
  <2>3. Waiting'
    BY <2>1 DEF ReachInv, Waiting
  <2> QED BY <2>1, <2>2, <2>3, ReachKeeps DEF ReachInv
<1> QED BY <1>1, <1>2, <1>3, <1>4 DEF Next

\* A parked event is reachable, for any number of devices, events and workers: the detail
\* of its device is not cached, for a worker would then skip the fetch that releases it.
THEOREM Reachable == Spec => []ParkedIsReachable
<1>1. Init => TypeOK /\ ReachInv
  BY TypeInit, ReachInit
<1>2. TypeOK /\ ReachInv /\ [Next]_vars => (TypeOK /\ ReachInv)'
  BY TypeStep, ReachStep
<1>3. ReachInv => ParkedIsReachable
  BY DEF ReachInv, Reach, ParkedIsReachable
<1> QED BY <1>1, <1>2, <1>3, PTL DEF Spec

-----------------------------------------------------------------------------
(* Each event in one place                                                  *)

\* The event is in the queue of its device.
Parked(e) == e \in ToSet(parked[DeviceOf[e]])

\* No two of the places hold the event, and one of them does once it has come.
Once(e) ==
  /\ handed[e] \in {0, 1}
  /\ e \in arrived <=> \/ e \in inHand \/ e \in flushing \/ e \in dropped \/ e \in aborted
                       \/ Parked(e) \/ handed[e] = 1
  /\ e \in inHand => /\ e \notin flushing /\ e \notin dropped /\ e \notin aborted
                     /\ ~ Parked(e) /\ handed[e] = 0
  /\ e \in flushing => e \notin dropped /\ e \notin aborted /\ ~ Parked(e) /\ handed[e] = 0
  /\ e \in dropped => e \notin aborted /\ ~ Parked(e) /\ handed[e] = 0
  /\ e \in aborted => ~ Parked(e) /\ handed[e] = 0
  /\ Parked(e) => handed[e] = 0

\* A queue holds events of its device, each once.
Orderly(d) ==
  /\ \A i \in 1..Len(parked[d]) : DeviceOf[parked[d][i]] = d
  /\ \A i, j \in 1..Len(parked[d]) : parked[d][i] = parked[d][j] => i = j

\* The inductive invariant of EachEventInOnePlace.
PlaceInv ==
  /\ feed = "idle" => inHand = {}
  /\ feed # "idle" => \E e \in Events : inHand = {e}
  /\ flushing # {} => closing = "writing"
  /\ \A d \in Devices : Orderly(d)
  /\ \A e \in Events : Once(e)

\* The events of a queue are those of its device that are parked.
LEMMA InQueue ==
  ASSUME TypeOK, \A d \in Devices : Orderly(d), NEW d \in Devices, NEW e
  PROVE  e \in ToSet(parked[d]) <=> e \in Events /\ DeviceOf[e] = d /\ Parked(e)
<1>1. ASSUME e \in ToSet(parked[d]) PROVE e \in Events /\ DeviceOf[e] = d
  <2>1. parked[d] \in Seq(Events)
    BY DEF TypeOK
  <2>2. ToSet(parked[d]) \subseteq Events /\ DOMAIN parked[d] = 1..Len(parked[d])
    BY <2>1, ElementsIn
  <2>3. PICK i \in 1..Len(parked[d]) : parked[d][i] = e
    BY <1>1, <2>2 DEF ToSet
  <2> QED BY <1>1, <2>2, <2>3 DEF Orderly
<1> QED BY <1>1 DEF Parked

\* An event is parked at the end of the queue of its device; others leave a full queue only
\* to be counted as dropped.
LEMMA ParkMoves ==
  ASSUME TypeOK, \A d \in Devices : Orderly(d), NEW x \in Events, ~ Parked(x), Park(x)
  PROVE  /\ \A d \in Devices : Orderly(d)'
         /\ Parked(x)' /\ (x \in dropped' <=> x \in dropped)
         /\ \A e \in Events : e # x =>
               /\ Parked(e)' => Parked(e)
               /\ e \in dropped' <=> e \in dropped \/ (Parked(e) /\ ~ Parked(e)')
<1> DEFINE d == DeviceOf[x]
           q == parked[d]
           evicted == IF parked[d] = <<>> /\ Len(parkOrder) >= MaxDevices
                      THEN {Head(parkOrder)} ELSE {}
           popped == IF Full(parked[d]) THEN {Head(parked[d])} ELSE {}
           rest == IF popped = {} THEN q ELSE Tail(q)
           lost == UNION {ToSet(parked[c]) : c \in evicted}
<1>1. /\ parked' = [c \in Devices |-> IF c = d THEN Append(rest, x)
                                      ELSE IF c \in evicted THEN <<>> ELSE parked[c]]
      /\ dropped' = dropped \cup popped \cup lost
  BY DEF Park
<1>2. /\ q \in Seq(Events) /\ rest \in Seq(Events)
      /\ ToSet(q) = ToSet(rest) \cup popped
      /\ popped # {} => q # <<>> /\ popped = {Head(q)}
  BY QueueAfterPark
<1>3. rest = IF popped = {} THEN q ELSE Tail(q)
  OBVIOUS
<1>4. evicted # {} => q = <<>>
  OBVIOUS
<1>5. d \in Devices /\ DeviceOf \in [Events -> Devices] /\ \A e \in Events : DeviceOf[e] \in Devices
  BY TimelineAssumption
<1>6. evicted \subseteq Devices
  <2>1. CASE evicted = {}
    BY <2>1
  <2>2. CASE evicted # {}
    <3>1. parkOrder \in Seq(Devices) /\ Len(parkOrder) >= MaxDevices /\ MaxDevices \in Nat \ {0}
      BY <2>2, TimelineAssumption DEF TypeOK
    <3>2. parkOrder # <<>>
      BY <3>1, EmptySeq
    <3>3. Head(parkOrder) \in Devices
      BY <3>1, <3>2, HeadAndTail
    <3> QED BY <2>2, <3>3
  <2> QED BY <2>1, <2>2
<1>7. /\ \A i \in 1..Len(q) : DeviceOf[q[i]] = d
      /\ \A i, j \in 1..Len(q) : q[i] = q[j] => i = j
  BY <1>5 DEF Orderly
<1>8. \A e \in Events : e \in lost <=> DeviceOf[e] \in evicted /\ Parked(e)
  BY <1>6, InQueue
<1>9. x \notin ToSet(q)
  BY DEF Parked
<1> HIDE DEF evicted, popped, rest, lost
<1>10. /\ \A i \in 1..Len(rest) : DeviceOf[rest[i]] = d
       /\ \A i, j \in 1..Len(rest) : rest[i] = rest[j] => i = j
       /\ popped \cap ToSet(rest) = {}
  <2>1. CASE popped = {}
    <3>1. rest = q
      BY <1>3, <2>1
    <3> HIDE DEF q
    <3> QED BY <1>7, <2>1, <3>1
  <2>2. CASE popped # {}
    <3> HIDE DEF q
    <3>1. rest = Tail(q) /\ q # <<>> /\ popped = {q[1]}
      BY <1>2, <1>3, <2>2, HeadAndTail
    <3>2. \A i \in 1..Len(rest) : i + 1 \in 1..Len(q) /\ rest[i] = q[i + 1]
      BY <1>2, <3>1, InTail
    <3>3. 1 \in 1..Len(q)
      BY <1>2, <3>1, ElementsIn
    <3>4. q[1] \notin ToSet(rest)
      <4> SUFFICES ASSUME q[1] \in ToSet(rest) PROVE FALSE
        OBVIOUS
      <4>1. DOMAIN rest = 1..Len(rest)
        BY <1>2, ElementsIn
      <4>2. PICK i \in 1..Len(rest) : rest[i] = q[1]
        BY <4>1 DEF ToSet
      <4>3. i + 1 = 1
        BY <1>7, <3>2, <3>3, <4>2
      <4> QED BY <4>3
    <3>5. ASSUME NEW i \in 1..Len(rest), NEW j \in 1..Len(rest), rest[i] = rest[j] PROVE i = j
      <4>1. i + 1 = j + 1
        BY <1>7, <3>2, <3>5
      <4> QED BY <4>1
    <3> QED BY <1>7, <3>1, <3>2, <3>4, <3>5
  <2> QED BY <2>1, <2>2
<1>11. x \notin ToSet(rest) /\ x \notin popped
  BY <1>2, <1>9
<1>12. /\ Len(rest) \in Nat /\ DOMAIN rest = 1..Len(rest)
       /\ Len(Append(rest, x)) = Len(rest) + 1 /\ Append(rest, x)[Len(rest) + 1] = x
       /\ \A i \in 1..Len(rest) : Append(rest, x)[i] = rest[i]
       /\ ToSet(Append(rest, x)) = ToSet(rest) \cup {x}
  BY <1>2, Appended, ElementsIn
<1>13. ASSUME NEW c \in Devices PROVE Orderly(c)'
  <2>1. CASE c = d
    <3> DEFINE t == Append(rest, x)
    <3>1. parked'[c] = t
      BY <1>1, <2>1
    <3> HIDE DEF t
    <3>2. \A i \in 1..Len(rest) : rest[i] # x
      BY <1>11, <1>12 DEF ToSet
    <3>3. Len(t) = Len(rest) + 1 /\ t[Len(rest) + 1] = x /\ \A i \in 1..Len(rest) : t[i] = rest[i]
      BY <1>12 DEF t
    <3>4. \A i \in 1..Len(t) : i \in 1..Len(rest) \/ i = Len(rest) + 1
      BY <1>12, <3>3
    <3>5. ASSUME NEW i \in 1..Len(t) PROVE DeviceOf[t[i]] = c
      BY <1>10, <2>1, <3>3, <3>4
    <3>6. ASSUME NEW i \in 1..Len(t), NEW j \in 1..Len(t), t[i] = t[j] PROVE i = j
      BY <1>10, <3>2, <3>3, <3>4, <3>6
    <3> QED BY <3>1, <3>5, <3>6 DEF Orderly
  <2>2. CASE c # d /\ c \in evicted
    <3>1. parked'[c] = <<>>
      BY <1>1, <2>2
    <3> QED BY <3>1 DEF Orderly
  <2>3. CASE c # d /\ c \notin evicted
    <3>1. parked'[c] = parked[c]
      BY <1>1, <2>3
    <3> QED BY <3>1 DEF Orderly
  <2> QED BY <2>1, <2>2, <2>3
<1>14. /\ Parked(x)'
       /\ \A e \in Events : DeviceOf[e] = d /\ e # x => (Parked(e)' <=> e \in ToSet(rest))
       /\ \A e \in Events : DeviceOf[e] # d =>
             (Parked(e)' <=> Parked(e) /\ DeviceOf[e] \notin evicted)
  <2>1. parked'[d] = Append(rest, x)
    BY <1>1, <1>5
  <2>2. \A e \in Events : DeviceOf[e] = d => (Parked(e)' <=> e \in ToSet(rest) \cup {x})
    BY <1>12, <2>1 DEF Parked
  <2>3. ASSUME NEW e \in Events, DeviceOf[e] # d
        PROVE  Parked(e)' <=> Parked(e) /\ DeviceOf[e] \notin evicted
    <3>1. parked'[DeviceOf[e]] = IF DeviceOf[e] \in evicted THEN <<>> ELSE parked[DeviceOf[e]]
      BY <1>1, <1>5, <2>3
    <3>2. ToSet(<<>>) = {}
      BY DEF ToSet
    <3> QED BY <3>1, <3>2 DEF Parked
  <2> QED BY <2>2, <2>3
<1>15. \A e \in Events : e \in lost => DeviceOf[e] # d
  <2>1. ToSet(<<>>) = {}
    BY DEF ToSet
  <2> QED BY <1>4, <1>8, <2>1 DEF Parked
<1>16. \A e \in Events : DeviceOf[e] = d => (Parked(e) <=> e \in ToSet(rest) \cup popped)
  BY <1>2 DEF Parked
<1>17. \A e \in popped : DeviceOf[e] = d
  BY <1>2, <1>5, InQueue
<1>18. ASSUME NEW e \in Events, e # x
       PROVE  /\ Parked(e)' => Parked(e)
              /\ e \in dropped' <=> e \in dropped \/ (Parked(e) /\ ~ Parked(e)')
  <2>1. CASE DeviceOf[e] = d
    BY <1>1, <1>10, <1>14, <1>15, <1>16, <1>18, <2>1
  <2>2. CASE DeviceOf[e] # d
    BY <1>1, <1>8, <1>14, <1>17, <1>18, <2>2
  <2> QED BY <2>1, <2>2
<1>19. x \in dropped' <=> x \in dropped
  BY <1>1, <1>11, <1>15
<1> QED BY <1>13, <1>14, <1>18, <1>19

\* What moves no event keeps each in its place.
LEMMA PlaceKeeps ==
  ASSUME PlaceInv,
         UNCHANGED <<feed, inHand, parked, flushing, arrived, handed, dropped, aborted>>,
         flushing # {} => UNCHANGED closing
  PROVE  PlaceInv'
BY DEF PlaceInv, Once, Orderly, Parked

\* The parked events, while the queues stay as they are.
LEMMA ParkedSame ==
  UNCHANGED parked => /\ \A d : Orderly(d)' <=> Orderly(d)
                      /\ \A e : Parked(e)' <=> Parked(e)
BY DEF Orderly, Parked

\* An event is in hand, then parked, written or aborted.
LEMMA FeedPlaces ==
  ASSUME TypeOK, PlaceInv,
         \/ \E e \in Events : EventArrives(e)
         \/ EventParked \/ EventWritten \/ ReaderCancelled
  PROVE  PlaceInv'
<1>0. /\ \A d \in Devices : Orderly(d)
      /\ \A e \in Events : Once(e) /\ handed[e] \in Nat
      /\ inHand \subseteq Events
  BY DEF PlaceInv, TypeOK
<1>1. ASSUME NEW x \in Events, EventArrives(x) PROVE PlaceInv'
  <2>1. /\ feed = "idle" /\ inHand = {} /\ x \notin arrived /\ arrived' = arrived \cup {x}
        /\ UNCHANGED <<flushing, closing, handed, aborted>>
    BY <1>1 DEF EventArrives, PlaceInv
  <2>2. ~ Parked(x) /\ handed[x] = 0 /\ x \notin flushing \cup dropped \cup aborted
    BY <1>0, <2>1 DEF Once
  <2>3. CASE feed' \in Busy /\ inHand' = {x} /\ UNCHANGED <<parked, dropped>>
    <3>1. \A e \in Events : Once(e)'
      BY <1>0, <2>1, <2>2, <2>3, ParkedSame DEF Once
    <3> QED BY <1>0, <2>1, <2>3, <3>1, ParkedSame DEF PlaceInv, Busy
  <2>4. CASE Park(x) /\ UNCHANGED <<feed, inHand>>
    <3>1. /\ \A d \in Devices : Orderly(d)'
          /\ Parked(x)' /\ (x \in dropped' <=> x \in dropped)
          /\ \A e \in Events : e # x =>
                /\ Parked(e)' => Parked(e)
                /\ e \in dropped' <=> e \in dropped \/ (Parked(e) /\ ~ Parked(e)')
      BY <1>0, <2>2, <2>4, ParkMoves
    <3>2. ASSUME NEW e \in Events PROVE Once(e)'
      <4>1. CASE e = x
        BY <2>1, <2>2, <2>4, <3>1, <4>1 DEF Once
      <4>2. CASE e # x
        BY <1>0, <2>1, <2>4, <3>1, <4>2 DEF Once
      <4> QED BY <4>1, <4>2
    <3> QED BY <2>1, <2>4, <3>1, <3>2 DEF PlaceInv
  <2> QED BY <1>1, <2>3, <2>4 DEF EventArrives, Busy
<1>2. CASE EventParked
  <2>1. /\ feed = "locking" /\ feed' = "idle" /\ inHand' = {}
        /\ UNCHANGED <<flushing, closing, arrived, handed, aborted>>
    BY <1>2 DEF EventParked
  <2>2. PICK x \in inHand : Park(x)
    BY <1>2 DEF EventParked
  <2>3. x \in Events /\ inHand = {x}
    BY <1>0, <2>1, <2>2 DEF PlaceInv
  <2>4. ~ Parked(x) /\ handed[x] = 0 /\ x \in arrived /\ x \notin flushing \cup dropped \cup aborted
    BY <1>0, <2>3 DEF Once
  <2>5. /\ \A d \in Devices : Orderly(d)'
        /\ Parked(x)' /\ (x \in dropped' <=> x \in dropped)
        /\ \A e \in Events : e # x =>
              /\ Parked(e)' => Parked(e)
              /\ e \in dropped' <=> e \in dropped \/ (Parked(e) /\ ~ Parked(e)')
    BY <1>0, <2>2, <2>3, <2>4, ParkMoves
  <2>6. ASSUME NEW e \in Events PROVE Once(e)'
    <3>1. CASE e = x
      BY <2>1, <2>4, <2>5, <3>1 DEF Once
    <3>2. CASE e # x
      BY <1>0, <2>1, <2>3, <2>5, <3>2 DEF Once
    <3> QED BY <3>1, <3>2
  <2> QED BY <2>1, <2>5, <2>6 DEF PlaceInv
<1>3. CASE EventWritten
  <2>1. /\ feed' = "idle" /\ inHand' = {} /\ Hand(inHand)
        /\ UNCHANGED <<parked, flushing, closing, arrived, dropped, aborted>>
    BY <1>3 DEF EventWritten, storage
  <2>2. \A e \in Events : Once(e)'
    BY <1>0, <2>1, HandTyped, ParkedSame DEF Once
  <2> QED BY <1>0, <2>1, <2>2, ParkedSame DEF PlaceInv
<1>4. CASE ReaderCancelled
  <2>1. /\ feed' = "idle" /\ inHand' = {} /\ aborted' = aborted \cup inHand
        /\ UNCHANGED <<parked, flushing, closing, arrived, handed, dropped>>
    BY <1>4 DEF ReaderCancelled
  <2>2. \A e \in Events : Once(e)'
    BY <1>0, <2>1, ParkedSame DEF Once
  <2> QED BY <1>0, <2>1, <2>2, ParkedSame DEF PlaceInv
<1> QED BY <1>1, <1>2, <1>3, <1>4

\* The parked events of a device are written together and forgotten together.
LEMMA ReleasedPlaces ==
  ASSUME TypeOK, PlaceInv, NEW w \in Workers, Released(w)
  PROVE  PlaceInv'
<1>1. /\ Hand(ToSet(parked[target[w]])) /\ parked' = [parked EXCEPT ![target[w]] = <<>>]
      /\ UNCHANGED <<feed, inHand, flushing, closing, arrived, dropped, aborted>>
  BY DEF Released, ParkedAfterRelease
<1>2. /\ \A d \in Devices : Orderly(d)
      /\ \A e \in Events : Once(e) /\ handed[e] \in Nat
      /\ target[w] \in Devices /\ parked \in [Devices -> Seq(Events)]
      /\ \A e \in Events : DeviceOf[e] \in Devices
  BY TimelineAssumption DEF PlaceInv, TypeOK
<1>3. \A d \in Devices : parked'[d] = IF d = target[w] THEN <<>> ELSE parked[d]
  BY <1>1, <1>2
<1>4. ASSUME NEW d \in Devices PROVE Orderly(d)'
  <2>1. CASE d = target[w]
    <3>1. parked'[d] = <<>>
      BY <1>3, <2>1
    <3> QED BY <3>1 DEF Orderly
  <2>2. CASE d # target[w]
    <3>1. parked'[d] = parked[d] /\ Orderly(d)
      BY <1>2, <1>3, <2>2
    <3> QED BY <3>1 DEF Orderly
  <2> QED BY <2>1, <2>2
<1>5. ASSUME NEW e \in Events
      PROVE  /\ Parked(e)' <=> Parked(e) /\ DeviceOf[e] # target[w]
             /\ e \in ToSet(parked[target[w]]) <=> Parked(e) /\ DeviceOf[e] = target[w]
  <2>1. ToSet(<<>>) = {}
    BY DEF ToSet
  <2>2. Parked(e)' <=> Parked(e) /\ DeviceOf[e] # target[w]
    BY <1>2, <1>3, <2>1 DEF Parked
  <2> QED BY <1>2, <2>2, InQueue
<1>6. \A e \in Events :
         handed'[e] = IF e \in ToSet(parked[target[w]]) THEN handed[e] + 1 ELSE handed[e]
  BY <1>1, HandTyped
<1>7. \A e \in Events : Once(e)'
  BY <1>1, <1>2, <1>5, <1>6 DEF Once
<1> QED BY <1>1, <1>4, <1>7 DEF PlaceInv

\* The flush of close() takes what is parked, or nothing.
LEMMA FlushPlaces == ASSUME TypeOK, PlaceInv, flushing = {}, Flush PROVE PlaceInv'
<1>1. /\ \A d \in Devices : Orderly(d)
      /\ \A e \in Events : Once(e) /\ handed[e] \in Nat
      /\ \A e \in Events : DeviceOf[e] \in Devices
  BY TimelineAssumption DEF PlaceInv, TypeOK
<1>2. UNCHANGED <<feed, inHand, arrived, handed, dropped, aborted>>
  BY DEF Flush, histories
<1>3. CASE UNCHANGED <<flushing, parked>>
  BY <1>2, <1>3, PlaceKeeps
<1>4. CASE /\ flushing' = UNION {ToSet(parked[d]) : d \in Devices}
           /\ parked' = [d \in Devices |-> <<>>]
           /\ closing' = IF flushing' = {} THEN "done" ELSE "writing"
  <2>1. \A e \in Events : e \in flushing' <=> Parked(e)
    BY <1>1, <1>4, InQueue
  <2>2. ToSet(<<>>) = {}
    BY DEF ToSet
  <2>3. \A e \in Events : ~ Parked(e)'
    BY <1>1, <1>4, <2>2 DEF Parked
  <2>4. \A d \in Devices : Orderly(d)'
    BY <1>4 DEF Orderly
  <2>5. \A e \in Events : Once(e)'
    BY <1>1, <1>2, <2>1, <2>3 DEF Once
  <2> QED BY <1>2, <1>4, <2>4, <2>5 DEF PlaceInv
<1> QED BY <1>3, <1>4 DEF Flush, Flushed

\* The steps of close(): what was parked is written together.
LEMMA ClosePlaces == ASSUME TypeOK, PlaceInv, CloseStep PROVE PlaceInv'
<1>1. /\ \A d \in Devices : Orderly(d)
      /\ \A e \in Events : Once(e) /\ handed[e] \in Nat
  BY DEF PlaceInv, TypeOK
<1>2. CASE FlushEnds
  <2>1. /\ Hand(flushing) /\ flushing' = {}
        /\ UNCHANGED <<feed, inHand, parked, arrived, dropped, aborted>>
    BY <1>2 DEF FlushEnds
  <2>2. \A e \in Events : Once(e)'
    BY <1>1, <2>1, HandTyped, ParkedSame DEF Once
  <2> QED BY <1>1, <2>1, <2>2, ParkedSame DEF PlaceInv
<1>3. ASSUME closing \in {"no", "locking"} PROVE flushing = {}
  BY <1>3 DEF PlaceInv
<1>4. CASE RestRaises
  BY <1>3, <1>4, PlaceKeeps DEF RestRaises, histories
<1>5. CASE CloseReachesFlush
  BY <1>3, <1>5, FlushPlaces, PlaceKeeps DEF CloseReachesFlush, histories
<1>6. CASE CloseWinsLock
  BY <1>3, <1>6, FlushPlaces DEF CloseWinsLock
<1> QED BY <1>2, <1>4, <1>5, <1>6 DEF CloseStep

\* At the start there is no event anywhere.
LEMMA PlaceInit == Init => PlaceInv
<1> SUFFICES ASSUME Init PROVE PlaceInv
  OBVIOUS
<1>1. \A d \in Devices : parked[d] = <<>>
  BY DEF Init
<1>2. \A e \in Events : ~ Parked(e) /\ handed[e] = 0
  <2>1. ToSet(<<>>) = {}
    BY DEF ToSet
  <2> QED BY <1>1, <2>1, TimelineAssumption DEF Init, Parked
<1>3. \A d \in Devices : Orderly(d)
  BY <1>1 DEF Orderly
<1> QED BY <1>2, <1>3 DEF Init, PlaceInv, Once

\* Every step moves an event from one place to the next.
LEMMA PlaceStep == TypeOK /\ PlaceInv /\ [Next]_vars => PlaceInv'
<1> SUFFICES ASSUME TypeOK, PlaceInv, [Next]_vars PROVE PlaceInv'
  OBVIOUS
<1>1. CASE \/ \E e \in Events : EventArrives(e)
           \/ EventParked \/ EventWritten \/ ReaderCancelled
  BY <1>1, FeedPlaces
<1>2. ASSUME NEW d \in Devices, StateChanges(d) \/ DeviceListed(d) \/ DetailExpires(d)
      PROVE  PlaceInv'
  BY <1>2, PlaceKeeps DEF StateChanges, DeviceListed, DetailExpires, storage, histories
<1>3. ASSUME NEW w \in Workers, WorkerStep(w) PROVE PlaceInv'
  <2>1. CASE Released(w)
    BY <2>1, ReleasedPlaces
  <2>2. CASE Take(w) \/ FetchFails(w) \/ FetchSucceeds(w) \/ LockWon(w) \/ DetailWritten(w)
    BY <2>2, PlaceKeeps
    DEF Take, FetchFails, FetchSucceeds, LockWon, DetailWritten, storage, histories
  <2> QED BY <1>3, <2>1, <2>2 DEF WorkerStep
<1>4. CASE CloseStep
  BY <1>4, ClosePlaces
<1>6. ASSUME NEW w \in Workers, WorkerCancelled(w) PROVE PlaceInv'
  BY <1>6, PlaceKeeps DEF WorkerCancelled, histories
<1>5. CASE UNCHANGED vars
  BY <1>5, PlaceKeeps DEF vars, storage, histories
<1> QED BY <1>1, <1>2, <1>3, <1>4, <1>5, <1>6 DEF Next

\* A set in which any two are equal has one element, or none.
LEMMA AtMostOne ==
  ASSUME NEW T, \A a, b \in T : a = b
  PROVE  Cardinality(T) = IF T = {} THEN 0 ELSE 1
<1>1. CASE T = {}
  BY <1>1, FS_EmptySet
<1>2. CASE T # {}
  <2>1. PICK a \in T : TRUE
    BY <1>2
  <2>2. T = {a}
    BY <2>1
  <2> QED BY <1>2, <2>2, FS_Singleton
<1> QED BY <1>1, <1>2

\* The places of an event are counted from the invariant.
LEMMA PlacesCounted ==
  ASSUME TypeOK, PlaceInv, NEW e \in Events
  PROVE  Places(e) = IF e \in arrived THEN 1 ELSE 0
<1> DEFINE held == {place \in 1..4 : e \in <<inHand, flushing, dropped, aborted>>[place]}
           q == parked[DeviceOf[e]]
           at == {i \in DOMAIN q : q[i] = e}
<1>1. Once(e) /\ Orderly(DeviceOf[e]) /\ q \in Seq(Events)
  BY TimelineAssumption DEF PlaceInv, TypeOK
<1>2. \A place \in 1..4 : place = 1 \/ place = 2 \/ place = 3 \/ place = 4
  OBVIOUS
<1>3. /\ 1 \in held <=> e \in inHand
      /\ 2 \in held <=> e \in flushing
      /\ 3 \in held <=> e \in dropped
      /\ 4 \in held <=> e \in aborted
      /\ \A place \in held : place = 1 \/ place = 2 \/ place = 3 \/ place = 4
  OBVIOUS
<1>4. at = {} <=> ~ Parked(e)
  BY DEF Parked, ToSet
<1>5. \A i, j \in at : i = j
  <2>1. DOMAIN q = 1..Len(q)
    BY <1>1, ElementsIn
  <2> QED BY <1>1, <2>1 DEF Orderly
<1>6. Places(e) = Cardinality(held) + Cardinality(at) + handed[e]
  BY DEF Places
<1> HIDE DEF held, at, q
<1>7. Cardinality(held) = IF held = {} THEN 0 ELSE 1
  <2>1. \A a, b \in held : a = b
    BY <1>1, <1>3 DEF Once
  <2> QED BY <2>1, AtMostOne
<1>8. Cardinality(at) = IF at = {} THEN 0 ELSE 1
  BY <1>5, AtMostOne
<1>9. held = {} <=> ~ (e \in inHand \/ e \in flushing \/ e \in dropped \/ e \in aborted)
  BY <1>3
<1> QED BY <1>1, <1>4, <1>6, <1>7, <1>8, <1>9 DEF Once

\* No event is lost without a trace and none is written twice, for any number of events,
\* devices and workers and any bounds of the queues: each event that came is in exactly one
\* place.
THEOREM OnePlace == Spec => []EachEventInOnePlace
<1>1. Init => TypeOK /\ PlaceInv
  BY TypeInit, PlaceInit
<1>2. TypeOK /\ PlaceInv /\ [Next]_vars => (TypeOK /\ PlaceInv)'
  BY TypeStep, PlaceStep
<1>3. TypeOK /\ PlaceInv => EachEventInOnePlace
  BY PlacesCounted DEF EachEventInOnePlace
<1> QED BY <1>1, <1>2, <1>3, PTL DEF Spec
=============================================================================
