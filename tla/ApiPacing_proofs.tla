-------------------------- MODULE ApiPacing_proofs --------------------------
(***************************************************************************)
(* Proof about ApiPacing, for any number of requests, any size of the      *)
(* semaphore and any interval: BurstIsBounded.                             *)
(***************************************************************************)
EXTENDS ApiPacing, FiniteSetTheorems, WellFoundedInduction, TLAPS

\* The ages and sleeps stay within the interval.
PacingTypeOK ==
    /\ pc \in [Requests -> {"idle", "pacing", "calling"}]
    /\ sleep \in [Requests -> 0..MinInterval]
    /\ sinceCall \in 0..MinInterval
    /\ sinceSent \in [Requests -> 0..MinInterval]

\* The requests first sent since r was, and those that may be while r is recent.
InWindowOf(r) ==
    {q \in Requests : \/ sinceSent[q] <= sinceSent[r]
                      \/ pc[q] = "pacing" /\ sleep[q] < MinInterval - sinceSent[r]}

\* A request that reads last_api_call_time after r was sent sleeps until r is no longer
\* recent: so those in the window of r held the semaphore with it.
PacingInv ==
    /\ PacingTypeOK
    /\ Cardinality(Holding) <= Concurrent
    /\ \A r \in Requests : sinceCall <= sinceSent[r]
    /\ \A r \in Recent : Cardinality(InWindowOf(r)) <= Concurrent

\* A set of requests is finite, and has no more members than one that includes it.
LEMMA Fewer ==
  ASSUME NEW T \in SUBSET Requests, NEW S \in SUBSET T
  PROVE  Cardinality(S) \in Nat /\ Cardinality(T) \in Nat /\ Cardinality(S) <= Cardinality(T)
<1>1. IsFiniteSet(T)
  BY FS_Subset, PacingAssumption
<1>2. IsFiniteSet(S) /\ Cardinality(S) <= Cardinality(T)
  BY <1>1, FS_Subset
<1> QED BY <1>1, <1>2, FS_CardinalityType

\* A set of numbers has a least.
LEMMA LeastNumber ==
  ASSUME NEW T \in SUBSET Nat, T # {}
  PROVE  \E n \in T : \A m \in T : n <= m
<1>1. PICK n \in T : \A m \in T : ~ (<<m, n>> \in OpToRel(<, Nat))
  BY WFMin, NatLessThanWellFounded
<1>2. ASSUME NEW m \in Nat, m < n PROVE <<m, n>> \in OpToRel(<, Nat)
  BY <1>2, Zenon DEF OpToRel
<1>3. \A m \in T : ~ (m < n)
  BY <1>1, <1>2
<1> QED BY <1>3

\* Of the recent requests, one was sent first.
LEMMA OldestRecent ==
  ASSUME PacingTypeOK, Recent # {}
  PROVE  \E r \in Recent : \A q \in Recent : sinceSent[q] <= sinceSent[r]
<1> DEFINE left == {MinInterval - sinceSent[q] : q \in Recent}
<1>1. \A q \in Recent : MinInterval - sinceSent[q] \in Nat /\ sinceSent[q] \in Nat
  BY PacingAssumption DEF Recent, PacingTypeOK
<1>2. left \subseteq Nat /\ left # {}
  BY <1>1
<1>3. PICK n \in left : \A m \in left : n <= m
  <2> HIDE DEF left
  <2> QED BY <1>2, LeastNumber
<1>4. PICK r \in Recent : n = MinInterval - sinceSent[r]
  OBVIOUS
<1>5. \A q \in Recent : MinInterval - sinceSent[r] <= MinInterval - sinceSent[q]
  BY <1>3, <1>4
<1>6. \A q \in Recent : sinceSent[q] <= sinceSent[r]
  BY <1>1, <1>5, PacingAssumption
<1> QED BY <1>6

\* The invariant bounds the requests sent in an interval.
LEMMA WindowBoundsBurst == PacingInv => BurstIsBounded
<1> SUFFICES ASSUME PacingInv PROVE BurstIsBounded
  OBVIOUS
<1>1. CASE Recent = {}
  BY <1>1, FS_EmptySet, PacingAssumption DEF BurstIsBounded
<1>2. CASE Recent # {}
  <2>1. PICK r \in Recent : \A q \in Recent : sinceSent[q] <= sinceSent[r]
    BY <1>2, OldestRecent DEF PacingInv
  <2>2. Recent \subseteq InWindowOf(r) /\ InWindowOf(r) \subseteq Requests
    BY <2>1 DEF InWindowOf, Recent
  <2>3. Cardinality(Recent) <= Cardinality(InWindowOf(r))
        /\ Cardinality(Recent) \in Nat /\ Cardinality(InWindowOf(r)) \in Nat
    BY <2>2, Fewer
  <2> QED BY <2>1, <2>3, PacingAssumption DEF PacingInv, BurstIsBounded
<1> QED BY <1>1, <1>2

-----------------------------------------------------------------------------
(* One lemma per action *)

\* A request that gets a slot of the semaphore gets one that the holders leave free.
LEMMA SlotIsFree ==
  ASSUME PacingInv, NEW r \in Requests, FreeSlot, Holding' = Holding \cup {r}
  PROVE  Cardinality(Holding') <= Concurrent
<1> USE PacingAssumption
<1>1. IsFiniteSet(Holding) /\ Cardinality(Holding) \in Nat
  BY FS_Subset, FS_CardinalityType DEF Holding
<1>2. Cardinality(Holding \cup {r})
      = IF r \in Holding THEN Cardinality(Holding) ELSE Cardinality(Holding) + 1
  BY <1>1, FS_AddElement
<1>3. Cardinality(Holding) < Concurrent
  BY DEF FreeSlot
<1> QED BY <1>1, <1>2, <1>3

\* A request that goes out at once finds no other recent: it begins a window alone, with
\* the requests that hold a slot.
LEMMA AcquireAndCallKeepsWindow ==
  ASSUME PacingInv, NEW r \in Requests, AcquireAndCall(r)
  PROVE  PacingInv'
<1> USE PacingAssumption
<1>1. PacingTypeOK'
  BY DEF PacingInv, PacingTypeOK, AcquireAndCall, Send
<1>2. Cardinality(Holding') <= Concurrent
  <2>1. Holding' = Holding \cup {r}
    BY DEF AcquireAndCall, Send, Holding, PacingInv, PacingTypeOK
  <2> QED BY <2>1, SlotIsFree DEF AcquireAndCall
<1>3. \A q \in Requests : sinceCall' <= sinceSent'[q]
  BY <1>1 DEF AcquireAndCall, Send, PacingTypeOK
<1>4. ASSUME NEW q \in Recent' PROVE Cardinality(InWindowOf(q)') <= Concurrent
  <2>1. sinceCall = MinInterval /\ (\A p \in Requests : sinceSent[p] = MinInterval)
    BY DEF AcquireAndCall, PaceTime, PacingInv, PacingTypeOK
  <2>2. q = r
    BY <1>4, <2>1 DEF Recent, AcquireAndCall, Send, PacingInv, PacingTypeOK
  <2>3. InWindowOf(q)' \subseteq Holding' /\ Holding' \subseteq Requests
    BY <2>1, <2>2 DEF InWindowOf, Holding, AcquireAndCall, Send, PacingInv, PacingTypeOK
  <2> QED BY <1>2, <2>3, Fewer
<1> QED BY <1>1, <1>2, <1>3, <1>4 DEF PacingInv

\* A request that has to pace itself joins no window: it sleeps until they are over.
LEMMA AcquireAndPaceKeepsWindow ==
  ASSUME PacingInv, NEW r \in Requests, AcquireAndPace(r)
  PROVE  PacingInv'
<1> USE PacingAssumption
<1>1. PacingTypeOK'
  BY DEF PacingInv, PacingTypeOK, AcquireAndPace, PaceTime
<1>2. Cardinality(Holding') <= Concurrent
  <2>1. Holding' = Holding \cup {r}
    BY DEF AcquireAndPace, Holding, PacingInv, PacingTypeOK
  <2> QED BY <2>1, SlotIsFree DEF AcquireAndPace
<1>3. \A q \in Requests : sinceCall' <= sinceSent'[q]
  BY DEF PacingInv, AcquireAndPace
<1>4. ASSUME NEW q \in Recent' PROVE Cardinality(InWindowOf(q)') <= Concurrent
  <2>1. q \in Recent
    BY <1>4 DEF Recent, AcquireAndPace
  <2>2. sleep' = [sleep EXCEPT ![r] = MinInterval - sinceCall] /\ sinceCall <= sinceSent[q]
    BY <1>4 DEF AcquireAndPace, PaceTime, PacingInv, Recent
  <2>3. InWindowOf(q)' \subseteq InWindowOf(q)
    BY <2>1, <2>2 DEF InWindowOf, AcquireAndPace, PacingInv, PacingTypeOK, Recent
  <2>4. Cardinality(InWindowOf(q)) <= Concurrent
    BY <2>1 DEF PacingInv
  <2>5. InWindowOf(q) \subseteq Requests
    BY DEF InWindowOf
  <2> QED BY <2>3, <2>4, <2>5, Fewer
<1> QED BY <1>1, <1>2, <1>3, <1>4 DEF PacingInv

\* A request sent now begins a window, and those that may be sent within it hold slots.
LEMMA FirstCallKeepsWindow ==
  ASSUME PacingInv, NEW r \in Requests, FirstCall(r)
  PROVE  PacingInv'
<1> USE PacingAssumption
<1>1. PacingTypeOK'
  BY DEF PacingInv, PacingTypeOK, FirstCall, Send
<1>2. Holding' = Holding
  BY DEF FirstCall, Send, Holding, PacingInv, PacingTypeOK
<1>3. \A q \in Requests : sinceCall' <= sinceSent'[q]
  BY <1>1 DEF FirstCall, Send, PacingTypeOK
<1>4. ASSUME NEW q \in Recent' PROVE Cardinality(InWindowOf(q)') <= Concurrent
  <2>0. ASSUME NEW S \in SUBSET Requests, Cardinality(S) <= Concurrent, InWindowOf(q)' \subseteq S
        PROVE  Cardinality(InWindowOf(q)') <= Concurrent
    BY <2>0, Fewer
  <2>1. CASE q # r
    <3>1. q \in Recent /\ sinceSent'[q] = sinceSent[q]
      BY <2>1, <1>4 DEF Recent, FirstCall, Send, PacingInv, PacingTypeOK
    <3>2. InWindowOf(q)' \subseteq InWindowOf(q)
      BY <3>1 DEF InWindowOf, FirstCall, Send, PacingInv, PacingTypeOK, Recent
    <3> QED BY <3>1, <3>2, <2>0 DEF PacingInv, InWindowOf
  <2>2. CASE q = r /\ \E p \in Requests : sinceSent[p] = 0
    <3>1. PICK p \in Requests : sinceSent[p] = 0
      BY <2>2
    <3>2. p \in Recent
      BY <3>1 DEF Recent
    <3>3. InWindowOf(q)' \subseteq InWindowOf(p)
      BY <3>1, <2>2 DEF InWindowOf, FirstCall, Send, PacingInv, PacingTypeOK
    <3> QED BY <3>2, <3>3, <2>0 DEF PacingInv, InWindowOf
  <2>3. CASE q = r /\ ~ \E p \in Requests : sinceSent[p] = 0
    <3>1. InWindowOf(q)' \subseteq Holding
      BY <2>3 DEF InWindowOf, FirstCall, Send, PacingInv, PacingTypeOK, Holding
    <3> QED BY <3>1, <2>0 DEF PacingInv, Holding
  <2> QED BY <2>1, <2>2, <2>3
<1> QED BY <1>1, <1>2, <1>3, <1>4 DEF PacingInv

\* A slot given back leaves every window as it was, or smaller.
LEMMA ReleaseKeepsWindow ==
  ASSUME PacingInv, NEW r \in Requests, Release(r)
  PROVE  PacingInv'
<1> USE PacingAssumption
<1>1. PacingTypeOK'
  BY DEF PacingInv, PacingTypeOK, Release
<1>2. Cardinality(Holding') <= Concurrent
  <2>1. Holding' \subseteq Holding /\ Holding \subseteq Requests
    BY DEF Release, Holding, PacingInv, PacingTypeOK
  <2> QED BY <2>1, Fewer DEF PacingInv
<1>3. \A q \in Requests : sinceCall' <= sinceSent'[q]
  BY DEF PacingInv, Release
<1>4. ASSUME NEW q \in Recent' PROVE Cardinality(InWindowOf(q)') <= Concurrent
  <2>1. q \in Recent
    BY <1>4 DEF Recent, Release
  <2>2. InWindowOf(q)' \subseteq InWindowOf(q) /\ InWindowOf(q) \subseteq Requests
    BY <2>1 DEF InWindowOf, Release, PacingInv, PacingTypeOK, Recent
  <2> QED BY <2>1, <2>2, Fewer DEF PacingInv
<1> QED BY <1>1, <1>2, <1>3, <1>4 DEF PacingInv

\* The ages grow together and the sleeps shrink with them: no request joins a window.
LEMMA TickKeepsWindow ==
  ASSUME PacingInv, Tick
  PROVE  PacingInv'
<1> USE PacingAssumption
<1>1. PacingTypeOK'
  BY DEF PacingInv, PacingTypeOK, Tick
<1>2. Holding' = Holding
  BY DEF Tick, Holding
<1>3. \A q \in Requests : sinceCall' <= sinceSent'[q]
  BY DEF PacingInv, PacingTypeOK, Tick
<1>4. ASSUME NEW q \in Recent' PROVE Cardinality(InWindowOf(q)') <= Concurrent
  <2>1. q \in Recent /\ sinceSent'[q] = sinceSent[q] + 1
    BY <1>4 DEF Recent, Tick, PacingInv, PacingTypeOK
  <2>2. InWindowOf(q)' \subseteq InWindowOf(q) /\ InWindowOf(q) \subseteq Requests
    BY <2>1 DEF InWindowOf, Tick, PacingInv, PacingTypeOK, Recent
  <2> QED BY <2>1, <2>2, Fewer DEF PacingInv
<1> QED BY <1>1, <1>2, <1>3, <1>4 DEF PacingInv

-----------------------------------------------------------------------------
(* The theorem *)

\* The reads of last_api_call_time before a sleep, and its writes after it, interleave in
\* any way: still no more requests are first sent in an interval than hold the semaphore.
THEOREM BurstBounded == Spec => []BurstIsBounded
<1>1. Init => PacingInv
  <2> SUFFICES ASSUME Init PROVE PacingInv
    OBVIOUS
  <2>1. Holding = {} /\ Recent = {}
    BY PacingAssumption DEF Init, Holding, Recent
  <2> QED BY <2>1, FS_EmptySet, PacingAssumption DEF Init, PacingInv, PacingTypeOK
<1>2. PacingInv /\ [Next]_vars => PacingInv'
  <2> SUFFICES ASSUME PacingInv, [Next]_vars PROVE PacingInv'
    OBVIOUS
  <2>0. ASSUME NEW r \in Requests, AcquireAndCall(r) PROVE PacingInv'
    BY <2>0, AcquireAndCallKeepsWindow
  <2>1. ASSUME NEW r \in Requests, AcquireAndPace(r) PROVE PacingInv'
    BY <2>1, AcquireAndPaceKeepsWindow
  <2>2. ASSUME NEW r \in Requests, FirstCall(r) PROVE PacingInv'
    BY <2>2, FirstCallKeepsWindow
  <2>3. ASSUME NEW r \in Requests, Release(r) PROVE PacingInv'
    BY <2>3, ReleaseKeepsWindow
  <2>4. CASE Tick
    BY <2>4, TickKeepsWindow
  <2>5. CASE UNCHANGED vars
    BY <2>5 DEF vars, PacingInv, PacingTypeOK, Holding, Recent, InWindowOf
  <2> QED BY <2>0, <2>1, <2>2, <2>3, <2>4, <2>5 DEF Next
<1> QED BY <1>1, <1>2, WindowBoundsBurst, PTL DEF Spec
=============================================================================
