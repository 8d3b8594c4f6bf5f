-------------------------- MODULE FeedSession_proofs --------------------------
(***************************************************************************)
(* Proofs about WebSocketHandler and FeedSession: for any delays, limits   *)
(* and timeouts, the safety properties that the runs of the two check.     *)
(***************************************************************************)
EXTENDS FeedSession, WellFoundedInduction, TLAPS

-----------------------------------------------------------------------------
(* The invariant of the handler *)

\* Rejections are counted only from one handshake to the next, and beyond the limit the
\* loop has ended.
Counted ==
    /\ pc # "limit" => authFailures <= Limit
    /\ pc = "refresh" => authFailures > 0
    /\ pc \in {"open", "gather", "gather_cancelled", "close"} => authFailures = 0
    /\ pc = "limit" => authFailures = Limit + 1

\* Only a cancellation gets the loop to where the next one would leave the tasks behind.
CancelledOnce == pc = "gather_cancelled" => cancelled

\* After each rejection but the last, a refresh has brought a token that Sense refuses, or
\* will be found to have: unless the URL has a valid one at present.
BadCredentials ==
    /\ pc \in {"connect", "delay"} =>
          badRefreshes >= IF url = "dead" THEN authFailures ELSE authFailures - 1
    /\ pc \in {"refresh", "limit"} => badRefreshes >= authFailures - 1

\* The inductive invariant of the handler.
HandlerInv ==
    /\ TypeOK
    /\ TasksEndWithConnection
    /\ SilenceIsOfThisConnection
    /\ CancelledOnce
    /\ Counted
    /\ BadCredentials

-----------------------------------------------------------------------------
(* What the steps of the handler keep *)

\* The delays and limits are numbers, and the longer of two delays bounds both.
LEMMA Delays ==
  /\ DelayInitial \in Nat \ {0} /\ DelayCap \in Nat \ {0} /\ Limit \in Nat \ {0}
  /\ SilenceTimeout \in Nat /\ CheckInterval \in Nat \ {0} /\ PingInterval \in Nat
  /\ AtLeast(DelayInitial, DelayCap) \in Nat \ {0}
  /\ DelayInitial <= AtLeast(DelayInitial, DelayCap)
  /\ DelayCap <= AtLeast(DelayInitial, DelayCap)
BY HandlerAssumption DEF AtLeast

\* At the start nothing is connected and nothing has failed.
LEMMA HandlerStarts == Init => HandlerInv
<1> SUFFICES ASSUME Init PROVE HandlerInv
  OBVIOUS
<1>1. /\ pc = "connect" /\ ws = FALSE /\ authFailures = 0 /\ backoff = DelayInitial
      /\ delay = 0 /\ cancelled = FALSE /\ reader = "none" /\ health = "none"
      /\ checkIn = 0 /\ silence = 0 /\ connAge = 0 /\ unheard = 0
      /\ url = "valid" /\ badRefreshes = 0
  BY DEF Init
<1>2. TypeOK
  <2>1. ws \in BOOLEAN /\ cancelled \in BOOLEAN
    BY <1>1
  <2> QED BY <1>1, <2>1, Delays DEF TypeOK
<1> QED BY <1>1, <1>2, Delays DEF HandlerInv, CancelledOnce, TasksEndWithConnection,
                        SilenceIsOfThisConnection,
                                  Counted, BadCredentials

\* The next delay is set, in bounds.
LEMMA DelayStarts ==
  ASSUME TypeOK, StartDelay
  PROVE  /\ pc' = "delay" /\ delay' = backoff
         /\ backoff' \in 1..AtLeast(DelayInitial, DelayCap)
         /\ delay' \in 0..AtLeast(DelayInitial, DelayCap)
<1>1. backoff' = AtMost(2 * backoff, DelayCap) /\ delay' = backoff /\ pc' = "delay"
  BY DEF StartDelay, NextBackoff
<1>2. backoff \in 1..AtLeast(DelayInitial, DelayCap)
  BY DEF TypeOK
<1>3. backoff' \in 1..AtLeast(DelayInitial, DelayCap)
  BY <1>1, <1>2, Delays DEF AtMost
<1> QED BY <1>1, <1>2, <1>3, Delays

\* A connection opens, is rejected, or fails.
LEMMA ConnectKeeps == ASSUME HandlerInv, ConnectStep PROVE HandlerInv'
<1>1. CASE ConnectSucceeds
  <2>1. /\ pc' = "open" /\ ws' = TRUE /\ authFailures' = 0 /\ backoff' = DelayInitial
        /\ reader' = "waiting" /\ health' = "checking"
        /\ silence' = 0 /\ connAge' = 0 /\ unheard' = 0 /\ badRefreshes' = 0
        /\ UNCHANGED <<delay, cancelled, checkIn, url>>
    BY <1>1 DEF ConnectSucceeds, StartClocks
  <2>2. ws' \in BOOLEAN
    BY <2>1
  <2>3. TypeOK'
    BY <2>1, <2>2, Delays DEF HandlerInv, TypeOK, ReaderLive, HealthLive
  <2> QED BY <2>1, <2>3, Delays DEF HandlerInv, CancelledOnce, TasksEndWithConnection,
                                    SilenceIsOfThisConnection, Counted, BadCredentials
<1>2. CASE ConnectRejected
  <2>1. /\ pc = "connect" /\ url = "dead" /\ authFailures' = authFailures + 1
        /\ pc' = IF authFailures' > Limit THEN "limit" ELSE "refresh"
        /\ UNCHANGED <<ws, backoff, delay, cancelled, reader, health, checkIn, silence,
                       connAge, unheard, url, badRefreshes>>
    BY <1>2 DEF ConnectRejected, tasks, times
  <2>2. authFailures \in 0..Limit /\ badRefreshes >= authFailures /\ badRefreshes \in Nat
    BY <2>1, Delays DEF HandlerInv, TypeOK, Counted, BadCredentials
  <2>3. TypeOK'
    BY <2>1, <2>2, Delays DEF HandlerInv, TypeOK
  <2>4. Counted' /\ BadCredentials'
    BY <2>1, <2>2, Delays DEF Counted, BadCredentials
  <2> QED BY <2>1, <2>3, <2>4 DEF HandlerInv, CancelledOnce, TasksEndWithConnection,
                        SilenceIsOfThisConnection
<1>3. CASE ConnectFails
  <2>1. /\ pc = "connect" /\ authFailures' = 0 /\ badRefreshes' = 0
        /\ UNCHANGED <<ws, cancelled, reader, health, checkIn, silence, connAge, unheard, url>>
    BY <1>3 DEF ConnectFails, AfterNetworkError, tasks, times
  <2>2. /\ pc' = "delay" /\ backoff' \in 1..AtLeast(DelayInitial, DelayCap)
        /\ delay' \in 0..AtLeast(DelayInitial, DelayCap)
    BY <1>3, DelayStarts DEF ConnectFails, HandlerInv
  <2>3. TypeOK'
    BY <2>1, <2>2, Delays DEF HandlerInv, TypeOK
  <2> QED BY <2>1, <2>2, <2>3, Delays DEF HandlerInv, CancelledOnce, TasksEndWithConnection,
                                    SilenceIsOfThisConnection, Counted, BadCredentials
<1> QED BY <1>1, <1>2, <1>3 DEF ConnectStep

\* A refresh after a rejection brings a token, a dead one, or none.
LEMMA RefreshKeeps ==
  ASSUME HandlerInv, RefreshRaises \/ \E new \in {"valid", "dead"} : RefreshReturns(new)
  PROVE  HandlerInv'
<1>1. /\ pc = "refresh" /\ StartDelay
      /\ UNCHANGED <<ws, authFailures, cancelled, reader, health, checkIn, silence, connAge,
                     unheard>>
  BY DEF RefreshRaises, RefreshReturns, tasks, times
<1>2. /\ url' \in {"valid", "dead"} /\ badRefreshes' \in Nat /\ badRefreshes' >= badRefreshes
      /\ url' = "dead" => badRefreshes' = badRefreshes + 1
  <2>1. badRefreshes \in Nat /\ url \in {"valid", "dead"}
    BY DEF HandlerInv, TypeOK
  <2> QED BY <2>1 DEF RefreshRaises, RefreshReturns, RefreshedUrl
<1>3. /\ pc' = "delay" /\ backoff' \in 1..AtLeast(DelayInitial, DelayCap)
      /\ delay' \in 0..AtLeast(DelayInitial, DelayCap)
  BY <1>1, DelayStarts DEF HandlerInv
<1>4. TypeOK'
  BY <1>1, <1>2, <1>3, Delays DEF HandlerInv, TypeOK
<1>5. Counted' /\ BadCredentials'
  BY <1>1, <1>2, <1>3, Delays DEF HandlerInv, TypeOK, Counted, BadCredentials
<1> QED BY <1>1, <1>3, <1>4, <1>5 DEF HandlerInv, CancelledOnce, TasksEndWithConnection,
                        SilenceIsOfThisConnection

\* While a connection is open, its tasks and their clocks change, and the rest stays.
LEMMA TasksKeep ==
  ASSUME HandlerInv,
         \/ FrameArrives \/ FrameHandled \/ FrameIgnored \/ ReaderEnds
         \/ HealthChecks \/ PingEnds \/ HealthWakes \/ TaskCancelled
  PROVE  HandlerInv'
<1>1. UNCHANGED <<pc, ws, authFailures, backoff, delay, cancelled, connAge, url, badRefreshes>>
  BY DEF FrameArrives, FrameHandled, FrameIgnored, ReaderEnds, HealthChecks, PingEnds,
         HealthWakes, TaskCancelled, loop, times
<1>2. /\ \/ reader' = reader
         \/ reader \in ReaderLive /\ reader' \in {"waiting", "handling", "done"}
      /\ \/ health' = health
         \/ health \in HealthLive /\ health' \in {"checking", "pinging", "sleeping", "done"}
  <2>1. CASE FrameArrives \/ FrameHandled \/ FrameIgnored \/ ReaderEnds
    BY <2>1 DEF FrameArrives, FrameHandled, FrameIgnored, ReaderEnds, ReaderLive
  <2>2. CASE HealthChecks \/ PingEnds \/ HealthWakes
    BY <2>2 DEF HealthChecks, PingEnds, HealthWakes, HealthLive
  <2>3. CASE TaskCancelled
    BY <2>3 DEF TaskCancelled, ReaderLive, HealthLive
  <2> QED BY <2>1, <2>2, <2>3
<1>3. /\ checkIn' \in {checkIn, CheckInterval}
      /\ silence' \in {silence, 0} /\ unheard' \in {unheard, 0}
  BY DEF FrameArrives, FrameHandled, FrameIgnored, ReaderEnds, HealthChecks, PingEnds,
         HealthWakes, TaskCancelled, times
<1>4. TypeOK'
  <2>1. reader' \in ReaderLive \cup {"none", "done"} /\ health' \in HealthLive \cup {"none", "done"}
    BY <1>2 DEF HandlerInv, TypeOK, ReaderLive, HealthLive
  <2>2. checkIn' \in 0..CheckInterval /\ silence' \in 0..(SilenceTimeout + 1)
        /\ unheard' \in 0..(SilenceTimeout + 1)
    BY <1>3, Delays DEF HandlerInv, TypeOK
  <2> QED BY <1>1, <2>1, <2>2 DEF HandlerInv, TypeOK
<1>5. TasksEndWithConnection'
  BY <1>1, <1>2 DEF HandlerInv, TasksEndWithConnection, ReaderLive, HealthLive
<1>6. SilenceIsOfThisConnection'
  BY <1>1, <1>3, Delays DEF HandlerInv, TypeOK, SilenceIsOfThisConnection
<1> QED BY <1>1, <1>4, <1>5, <1>6 DEF HandlerInv, CancelledOnce, Counted, BadCredentials

\* A connection ends, and its socket is closed once its tasks have ended.
LEMMA EndKeeps ==
  ASSUME HandlerInv, ConnectionEnds \/ TasksGathered \/ SocketClosed \/ DelayEnds \/ Cancel
  PROVE  HandlerInv'
<1>1. CASE ConnectionEnds
  <2>1. /\ pc = "open" /\ pc' = "gather"
        /\ reader' \in {"done", "cancelling"} /\ health' \in {"done", "cancelling"}
        /\ UNCHANGED <<ws, authFailures, backoff, delay, cancelled, checkIn, silence, connAge,
                       unheard, url, badRefreshes>>
    BY <1>1 DEF ConnectionEnds, CancelTasks, times
  <2>2. TypeOK'
    BY <2>1 DEF HandlerInv, TypeOK, ReaderLive, HealthLive
  <2> QED BY <2>1, <2>2 DEF HandlerInv, CancelledOnce, TasksEndWithConnection,
                        SilenceIsOfThisConnection,
                            Counted, BadCredentials
<1>2. CASE TasksGathered
  <2>1. /\ pc \in {"gather", "gather_cancelled"} /\ pc' \in {"close", "cancelled"}
        /\ reader \notin ReaderLive /\ health \notin HealthLive
        /\ UNCHANGED <<ws, authFailures, backoff, delay, cancelled, reader, health, checkIn,
                       silence, connAge, unheard, url, badRefreshes>>
    BY <1>2 DEF TasksGathered, TasksEnded, tasks, times
  <2>2. TypeOK'
    BY <2>1 DEF HandlerInv, TypeOK
  <2>3. TasksEndWithConnection'
    BY <2>1 DEF HandlerInv, TypeOK, TasksEndWithConnection
  <2>4. Counted'
    BY <2>1 DEF HandlerInv, Counted
  <2> QED BY <2>1, <2>2, <2>3, <2>4 DEF HandlerInv, CancelledOnce, SilenceIsOfThisConnection,
                                        BadCredentials
<1>3. CASE SocketClosed
  <2>1. /\ pc = "close" /\ ws' = FALSE
        /\ UNCHANGED <<authFailures, cancelled, reader, health, checkIn, silence, connAge,
                       unheard, url, badRefreshes>>
    BY <1>3 DEF SocketClosed, tasks, times
  <2>2. /\ pc' \in {"cancelled", "delay"}
        /\ backoff' \in 1..AtLeast(DelayInitial, DelayCap)
        /\ delay' \in 0..AtLeast(DelayInitial, DelayCap)
    <3>1. CASE cancelled
      BY <1>3, <3>1 DEF SocketClosed, HandlerInv, TypeOK
    <3>2. CASE ~cancelled
      BY <1>3, <3>2, DelayStarts DEF SocketClosed, HandlerInv
    <3> QED BY <3>1, <3>2
  <2>3. ws' \in BOOLEAN
    BY <2>1
  <2>4. TypeOK'
    BY <2>1, <2>2, <2>3 DEF HandlerInv, TypeOK
  <2>5. authFailures = 0 /\ badRefreshes \in Nat
    BY <2>1 DEF HandlerInv, TypeOK, Counted
  <2>6. Counted' /\ BadCredentials'
    BY <2>1, <2>2, <2>5, Delays DEF Counted, BadCredentials
  <2> QED BY <2>1, <2>2, <2>4, <2>6 DEF HandlerInv, CancelledOnce, TasksEndWithConnection,
                                        SilenceIsOfThisConnection
<1>4. CASE DelayEnds
  <2>1. /\ pc = "delay" /\ pc' = "connect"
        /\ UNCHANGED <<ws, authFailures, backoff, delay, cancelled, reader, health, checkIn,
                       silence, connAge, unheard, url, badRefreshes>>
    BY <1>4 DEF DelayEnds, tasks, times
  <2>2. TypeOK'
    BY <2>1 DEF HandlerInv, TypeOK
  <2> QED BY <2>1, <2>2 DEF HandlerInv, CancelledOnce, TasksEndWithConnection,
                        SilenceIsOfThisConnection,
                            Counted, BadCredentials
<1>5. CASE Cancel
  <2>1. /\ ~Over /\ ~cancelled /\ cancelled' = TRUE
        /\ UNCHANGED <<ws, authFailures, backoff, delay, checkIn, silence, connAge, unheard,
                       url, badRefreshes>>
    BY <1>5 DEF Cancel, times
  <2>2. cancelled' \in BOOLEAN
    BY <2>1
  <2>3. CASE pc = "open"
    <3>1. pc' = "gather" /\ reader' \in {"done", "cancelling"} /\ health' \in {"done", "cancelling"}
      BY <1>5, <2>3 DEF Cancel, CancelTasks
    <3>2. TypeOK'
      BY <2>1, <2>2, <3>1 DEF HandlerInv, TypeOK, ReaderLive, HealthLive
    <3> QED BY <2>1, <2>3, <3>1, <3>2 DEF HandlerInv, CancelledOnce, TasksEndWithConnection,
                              SilenceIsOfThisConnection, Counted, BadCredentials
  <2>4. CASE pc # "open"
    <3>1. /\ UNCHANGED <<reader, health>>
          /\ pc' = IF pc = "gather" THEN "gather_cancelled" ELSE "cancelled"
      BY <1>5, <2>4 DEF Cancel
    <3>2. pc = "gather_cancelled" => pc' = "cancelled"
      BY <3>1
    <3>3. TypeOK'
      BY <2>1, <2>2, <3>1 DEF HandlerInv, TypeOK
    <3>4. Counted' /\ BadCredentials' /\ SilenceIsOfThisConnection'
      BY <2>1, <2>4, <3>1 DEF HandlerInv, Counted, BadCredentials, Over, SilenceIsOfThisConnection
    <3>5. TasksEndWithConnection'
      BY <2>1, <2>4, <3>1 DEF HandlerInv, CancelledOnce, TasksEndWithConnection, Cancel
    <3>6. CancelledOnce'
      BY <2>1 DEF CancelledOnce
    <3> QED BY <3>3, <3>4, <3>5, <3>6 DEF HandlerInv
  <2> QED BY <2>3, <2>4
<1> QED BY <1>1, <1>2, <1>3, <1>4, <1>5

\* Sense refuses a token, or time passes.
LEMMA RestKeeps == ASSUME HandlerInv, TokenDies \/ Tick PROVE HandlerInv'
<1>1. CASE TokenDies
  <2>1. /\ url = "valid" /\ url' = "dead"
        /\ badRefreshes' = IF authFailures > 0 THEN badRefreshes + 1 ELSE badRefreshes
        /\ UNCHANGED <<pc, ws, authFailures, backoff, delay, cancelled, reader, health, checkIn,
                       silence, connAge, unheard>>
    BY <1>1 DEF TokenDies, loop, tasks, times
  <2>2. badRefreshes \in Nat /\ authFailures \in 0..(Limit + 1)
    BY DEF HandlerInv, TypeOK
  <2>3. TypeOK'
    BY <2>1, <2>2 DEF HandlerInv, TypeOK
  <2>4. BadCredentials'
    BY <2>1, <2>2, Delays DEF HandlerInv, BadCredentials
  <2> QED BY <2>1, <2>3, <2>4 DEF HandlerInv, TasksEndWithConnection, SilenceIsOfThisConnection,
                                  CancelledOnce, Counted
<1>2. CASE Tick
  <2>1. /\ silence' = AtMost(silence + 1, SilenceTimeout + 1)
        /\ connAge' = AtMost(connAge + 1, SilenceTimeout + 1)
        /\ unheard' = AtMost(unheard + 1, SilenceTimeout + 1)
        /\ delay' = AtLeast(delay - 1, 0) /\ checkIn' = AtLeast(checkIn - 1, 0)
        /\ UNCHANGED <<pc, ws, authFailures, backoff, cancelled, reader, health, url,
                       badRefreshes>>
    BY <1>2 DEF Tick
  <2>2. silence' \in 0..(SilenceTimeout + 1) /\ connAge' \in 0..(SilenceTimeout + 1)
        /\ unheard' \in 0..(SilenceTimeout + 1)
    BY <2>1, Delays DEF HandlerInv, TypeOK, AtMost
  <2>3. checkIn' \in 0..CheckInterval
    BY <2>1, Delays DEF HandlerInv, TypeOK, AtLeast
  <2>4. delay' \in 0..AtLeast(DelayInitial, DelayCap)
    <3> DEFINE most == AtLeast(DelayInitial, DelayCap)
    <3>1. most \in Nat /\ delay \in 0..most
      BY Delays DEF HandlerInv, TypeOK
    <3> HIDE DEF most
    <3>2. delay' \in 0..most
      BY <2>1, <3>1 DEF AtLeast
    <3> QED BY <3>2 DEF most
  <2>5. TypeOK'
    BY <2>1, <2>2, <2>3, <2>4 DEF HandlerInv, TypeOK
  <2>6. SilenceIsOfThisConnection'
    BY <2>1, Delays DEF HandlerInv, TypeOK, SilenceIsOfThisConnection, AtMost
  <2> QED BY <2>1, <2>5, <2>6 DEF HandlerInv, TasksEndWithConnection, CancelledOnce, Counted,
                                  BadCredentials
<1> QED BY <1>1, <1>2

\* Every step of the handler and of its tasks.
LEMMA HandlerStep == HandlerInv /\ [Next]_vars => HandlerInv'
<1> SUFFICES ASSUME HandlerInv, [Next]_vars PROVE HandlerInv'
  OBVIOUS
<1>1. CASE ConnectStep
  BY <1>1, ConnectKeeps
<1>2. CASE RefreshRaises \/ \E new \in {"valid", "dead"} : RefreshReturns(new)
  BY <1>2, RefreshKeeps
<1>3. CASE ConnectionStep
  BY <1>3, TasksKeep, EndKeeps DEF ConnectionStep
<1>4. CASE DelayEnds \/ Cancel
  BY <1>4, EndKeeps
<1>5. CASE TokenDies \/ Tick
  BY <1>5, RestKeeps
<1>6. CASE UNCHANGED vars
  BY <1>6 DEF vars, HandlerInv, TypeOK, TasksEndWithConnection, SilenceIsOfThisConnection,
              CancelledOnce, Counted, BadCredentials
<1> QED BY <1>1, <1>2, <1>3, <1>4, <1>5, <1>6 DEF Next

\* The invariant of the handler holds always.
LEMMA HandlerInvariant == Spec => []HandlerInv
<1> QED BY HandlerStarts, HandlerStep, PTL DEF Spec

\* The handler stays within its states, whatever logins come with it.
THEOREM TypeCorrect == Spec => []TypeOK
<1>1. HandlerInv => TypeOK
  BY DEF HandlerInv
<1> QED BY <1>1, HandlerInvariant, PTL

\* No task of a connection outlives it, wherever a cancellation reaches the loop.
THEOREM TasksEnd == Spec => []TasksEndWithConnection
<1>1. HandlerInv => TasksEndWithConnection
  BY DEF HandlerInv
<1> QED BY <1>1, HandlerInvariant, PTL

\* The monitor never judges a connection by the silence of the one before.
THEOREM SilenceOwn == Spec => []SilenceIsOfThisConnection
<1>1. HandlerInv => SilenceIsOfThisConnection
  BY DEF HandlerInv
<1> QED BY <1>1, HandlerInvariant, PTL

\* The loop gives up only after Limit re-authentications in a row without effect.
THEOREM LimitMeansBad == Spec => []LimitMeansBadCredentials
<1>1. ASSUME HandlerInv PROVE LimitMeansBadCredentials
  <2> SUFFICES ASSUME pc = "limit" PROVE badRefreshes >= Limit
    BY DEF LimitMeansBadCredentials
  <2>1. authFailures = Limit + 1 /\ badRefreshes >= authFailures - 1
    BY <1>1 DEF HandlerInv, Counted, BadCredentials
  <2> QED BY <2>1, Delays
<1> QED BY <1>1, HandlerInvariant, PTL

-----------------------------------------------------------------------------
(* The handler with the logins *)

\* The handler that is composed with the logins takes the steps of the handler alone.
THEOREM FeedIsHandler == FeedSpec => Spec
<1>1. FeedInit => Init
  BY DEF FeedInit
<1>2. ASSUME [FeedNext]_feedVars PROVE [Next]_vars
  <2>1. CASE FeedConnects \/ FeedRejected \/ FeedConnectFails
    BY <2>1 DEF FeedConnects, FeedRejected, FeedConnectFails, ConnectStep, Next
  <2>2. CASE FeedRefresh
    <3>1. \A ok : UrlOf(ok) \in {"valid", "dead"}
      BY DEF UrlOf
    <3> QED BY <2>2, <3>1 DEF FeedRefresh, FeedLogsIn, FeedReuses, FeedLoginSucceeds,
                              FeedLoginFails, FeedLoginRaises, Next
  <2>3. CASE (DelayEnds \/ ConnectionStep) /\ UNCHANGED session
    BY <2>3 DEF Next
  <2>4. CASE FeedCancelled
    BY <2>4 DEF FeedCancelled, Next
  <2>5. CASE RestLogsIn \/ RestLoginEnds
    BY <2>5 DEF RestLogsIn, RestLoginEnds, RestLoginSucceeds, RestLoginFails
  <2>6. CASE PresentTokenDies \/ OldTokenDies
    BY <2>6 DEF PresentTokenDies, OldTokenDies, Next
  <2>7. CASE Time
    BY <2>7 DEF Time, Next
  <2>8. CASE UNCHANGED feedVars
    BY <2>8 DEF feedVars
  <2> QED BY <1>2, <2>1, <2>2, <2>3, <2>4, <2>5, <2>6, <2>7, <2>8 DEF FeedNext
<1> QED BY <1>1, <1>2, PTL DEF FeedSpec, Spec

-----------------------------------------------------------------------------
(* The waits of a run of rejections *)

\* A set of numbers that has 0, and with each number the next, has them all.
LEMMA NumberInduction ==
  ASSUME NEW Reached, 0 \in Reached, \A n \in Nat : n \in Reached => n + 1 \in Reached
  PROVE  Nat \subseteq Reached
<1> SUFFICES ASSUME Nat \ Reached # {} PROVE FALSE
  OBVIOUS
<1>1. PICK n \in Nat \ Reached : \A m \in Nat \ Reached : ~ (<<m, n>> \in OpToRel(<, Nat))
  BY WFMin, NatLessThanWellFounded
<1>2. ASSUME NEW m \in Nat, m < n PROVE <<m, n>> \in OpToRel(<, Nat)
  BY <1>2, Zenon DEF OpToRel
<1>3. n # 0 /\ n - 1 \in Nat /\ n - 1 < n /\ (n - 1) + 1 = n
  OBVIOUS
<1>4. n - 1 \in Reached
  BY <1>1, <1>2, <1>3
<1> QED BY <1>1, <1>3, <1>4

\* The equations of the recursive function.
LEMMA WaitedDefined ==
  /\ Waited[0] = NoWait
  /\ \A k \in 1..Limit : Waited[k] = OneWaitMore(Waited[k - 1])
<1> DEFINE At(f, k) == IF k = 0 THEN NoWait ELSE OneWaitMore(f[k - 1])
           Reached == {n \in Nat : \E f : f = [k \in 0..n |-> At(f, k)]}
<1>1. 0 \in Reached
  <2> DEFINE g == [k \in 0..0 |-> NoWait]
  <2>1. g = [k \in 0..0 |-> At(g, k)]
    OBVIOUS
  <2> QED BY <2>1
<1>2. ASSUME NEW n \in Nat, n \in Reached PROVE n + 1 \in Reached
  <2>1. PICK f : f = [k \in 0..n |-> At(f, k)]
    BY <1>2
  <2> DEFINE g == [k \in 0..(n + 1) |-> IF k = n + 1 THEN At(f, k) ELSE f[k]]
  <2>2. \A k \in 0..n : g[k] = f[k]
    OBVIOUS
  <2>3. \A k \in 0..(n + 1) : At(g, k) = At(f, k)
    BY <2>2
  <2>4. \A k \in 0..n : f[k] = At(f, k)
    BY <2>1
  <2>5. \A k \in 0..(n + 1) : (IF k = n + 1 THEN At(f, k) ELSE f[k]) = At(g, k)
    BY <2>3, <2>4
  <2>6. g = [k \in 0..(n + 1) |-> At(g, k)]
    BY <2>5, Zenon
  <2> HIDE DEF g, At
  <2> QED BY <2>6
<1>3. Nat \subseteq Reached
  <2> HIDE DEF Reached
  <2> QED BY <1>1, <1>2, NumberInduction
<1>4. Limit \in Nat
  BY Delays
<1>5. \E f : f = [k \in 0..Limit |-> At(f, k)]
  BY <1>3, <1>4
<1>6. Waited = [k \in 0..Limit |-> At(Waited, k)]
  BY <1>5, Zenon DEF Waited
<1> HIDE DEF Reached
<1>7. \A k \in 0..Limit : Waited[k] = At(Waited, k)
  <2> HIDE DEF At
  <2> QED BY <1>6
<1> QED BY <1>4, <1>7

\* They are numbers.
LEMMA WaitedNumbers ==
  ASSUME NEW k \in 0..Limit
  PROVE  Waited[k].sum \in Nat /\ Waited[k].next \in Nat
<1> DEFINE Reached == {n \in Nat : n <= Limit => Waited[n].sum \in Nat /\ Waited[n].next \in Nat}
<1>0. Limit \in Nat
  BY Delays
<1>1. 0 \in Reached
  BY WaitedDefined, Delays DEF NoWait, AtMost
<1>2. ASSUME NEW n \in Nat, n \in Reached PROVE n + 1 \in Reached
  <2> SUFFICES ASSUME n + 1 <= Limit PROVE Waited[n + 1].sum \in Nat /\ Waited[n + 1].next \in Nat
    OBVIOUS
  <2>1. n + 1 \in 1..Limit /\ (n + 1) - 1 = n
    BY <1>0
  <2>2. Waited[n].sum \in Nat /\ Waited[n].next \in Nat
    BY <1>0, <1>2
  <2>3. Waited[n + 1] = OneWaitMore(Waited[n])
    BY <2>1, WaitedDefined
  <2> QED BY <2>2, <2>3, Delays DEF OneWaitMore, AtMost
<1>3. Nat \subseteq Reached
  <2> HIDE DEF Reached
  <2> QED BY <1>1, <1>2, NumberInduction
<1> QED BY <1>0, <1>3

\* One wait more.
LEMMA NextWait ==
  ASSUME NEW k \in 0..Limit, k < Limit
  PROVE  /\ Waited[k + 1].sum = Waited[k].sum + Waited[k].next
         /\ Waited[k + 1].next = AtMost(2 * Waited[k].next, DelayCap)
<1>1. k + 1 \in 1..Limit /\ (k + 1) - 1 = k
  BY Delays
<1>2. Waited[k + 1] = OneWaitMore(Waited[k])
  BY <1>1, WaitedDefined
<1> QED BY <1>2 DEF OneWaitMore

-----------------------------------------------------------------------------
(* The logins that a run of rejections brings *)

\* The flags and clocks of the session.
SessionTypes ==
    /\ busy \in BOOLEAN /\ mine \in BOOLEAN /\ tried \in BOOLEAN
    /\ age \in 0..(MinReauthAge + 1) /\ wait \in Int /\ nap \in Int

\* The token is as old as that, or old enough for a login.
Aged(t) == age > MinReauthAge \/ age >= t

\* While no login is tried, the token ages by the waits; after the last but one rejection
\* it would be too old to be used again.
UntriedAges ==
    (~tried /\ authFailures > 0) =>
        /\ pc = "refresh" =>
              /\ Aged(Waited[authFailures - 1].sum)
              /\ backoff >= Waited[authFailures - 1].next
              /\ wait <= nap
        /\ pc \in {"delay", "connect"} =>
              /\ authFailures < Limit
              /\ backoff >= Waited[authFailures].next
              /\ Aged(Waited[authFailures].sum - IF pc = "delay" THEN delay ELSE 0)

\* The inductive invariant of LimitMeansLoginTried.
SessionInv ==
    /\ SessionTypes
    /\ mine => pc = "refresh" /\ tried
    /\ backoff >= Waited[0].next
    /\ UntriedAges
    /\ LimitMeansLoginTried

\* At the start no wait has begun.
LEMMA SessionStarts == FeedInit => SessionInv
<1> SUFFICES ASSUME FeedInit PROVE SessionInv
  OBVIOUS
<1>1. /\ mine = FALSE /\ nap = 0 /\ tried = FALSE /\ busy = FALSE /\ age = 0 /\ wait = 0
      /\ pc = "connect" /\ authFailures = 0 /\ backoff = DelayInitial
  BY DEF FeedInit, Init, Gate!GateInit
<1>2. SessionTypes
  <2>1. busy \in BOOLEAN /\ mine \in BOOLEAN /\ tried \in BOOLEAN
    BY <1>1
  <2> QED BY <1>1, <2>1, PacingAssumption DEF SessionTypes
<1>3. backoff >= Waited[0].next
  BY <1>1, WaitedDefined, Delays DEF NoWait, AtMost
<1> QED BY <1>1, <1>2, <1>3 DEF SessionInv, UntriedAges, LimitMeansLoginTried

\* Any backoff is at least what a run of rejections starts with, doubled or not.
LEMMA BackoffDoubles ==
  ASSUME NEW k \in 0..Limit, NEW b \in Nat, b >= Waited[k].next, k < Limit
  PROVE  AtMost(2 * b, DelayCap) >= Waited[k + 1].next
<1>1. Waited[k + 1].next = AtMost(2 * Waited[k].next, DelayCap)
  BY NextWait
<1> QED BY <1>1, WaitedNumbers, Delays DEF AtMost

\* After a doubling, it is still that.
LEMMA BackoffStays ==
  ASSUME NEW b \in Nat, b >= Waited[0].next
  PROVE  AtMost(2 * b, DelayCap) >= Waited[0].next
BY WaitedDefined, Delays DEF NoWait, AtMost

\* A connect attempt: the count starts anew, or a rejection adds to it.
LEMMA AttemptKeeps ==
  ASSUME HandlerInv, SessionInv, FeedConnects \/ FeedRejected \/ FeedConnectFails
  PROVE  SessionInv'
<1>0. backoff \in Nat /\ authFailures \in Nat /\ pc # "limit" => backoff \in Nat
  BY Delays DEF HandlerInv, TypeOK
<1>1. CASE FeedConnects
  <2>1. /\ pc = "connect" /\ pc' = "open" /\ authFailures' = 0 /\ backoff' = DelayInitial
        /\ tried' = FALSE /\ UNCHANGED <<busy, age, failures, wait, mine, nap>>
    BY <1>1 DEF FeedConnects, ConnectSucceeds, gate
  <2>2. SessionTypes'
    <3>1. tried' \in BOOLEAN
      BY <2>1
    <3> QED BY <2>1, <3>1 DEF SessionInv, SessionTypes
  <2>3. backoff' >= Waited[0].next
    BY <2>1, WaitedDefined, Delays DEF NoWait, AtMost
  <2> QED BY <2>1, <2>2, <2>3 DEF SessionInv, UntriedAges, LimitMeansLoginTried
<1>2. CASE FeedConnectFails
  <2>1. /\ pc = "connect" /\ pc' = "delay" /\ authFailures' = 0
        /\ backoff' = AtMost(2 * backoff, DelayCap)
        /\ tried' = FALSE /\ UNCHANGED <<busy, age, failures, wait, mine, nap>>
    BY <1>2 DEF FeedConnectFails, ConnectFails, AfterNetworkError, StartDelay, NextBackoff, gate
  <2>2. SessionTypes'
    <3>1. tried' \in BOOLEAN
      BY <2>1
    <3> QED BY <2>1, <3>1 DEF SessionInv, SessionTypes
  <2>3. backoff' >= Waited[0].next
    <3>1. backoff \in Nat
      BY Delays DEF HandlerInv, TypeOK
    <3> QED BY <2>1, <3>1, BackoffStays DEF SessionInv
  <2> QED BY <2>1, <2>2, <2>3 DEF SessionInv, UntriedAges, LimitMeansLoginTried
<1>3. CASE FeedRejected
  <2>1. /\ pc = "connect" /\ authFailures' = authFailures + 1
        /\ pc' = IF authFailures' > Limit THEN "limit" ELSE "refresh"
        /\ nap' = wait /\ tried' = (tried /\ authFailures > 0)
        /\ UNCHANGED <<backoff, busy, age, failures, wait, mine>>
    BY <1>3 DEF FeedRejected, ConnectRejected, gate
  <2>2. authFailures \in 0..Limit /\ ~mine
    BY <2>1, Delays DEF HandlerInv, TypeOK, Counted, SessionInv
  <2>3. tried' \in BOOLEAN /\ nap' \in Int
    BY <2>1, <2>2 DEF SessionInv, SessionTypes
  <2>4. SessionTypes'
    BY <2>1, <2>3 DEF SessionInv, SessionTypes
  <2>5. ASSUME ~tried'
        PROVE  /\ pc' = "refresh" /\ backoff >= Waited[authFailures].next
               /\ Aged(Waited[authFailures].sum)
    <3>1. CASE authFailures = 0
      <4>1. Waited[0].sum = 0 /\ age \in Nat
        BY WaitedDefined, PacingAssumption DEF NoWait, SessionInv, SessionTypes
      <4> QED BY <2>1, <3>1, <4>1, Delays DEF SessionInv, Aged
    <3>2. CASE authFailures > 0
      <4>1. ~tried
        BY <2>1, <2>5, <3>2 DEF SessionInv, SessionTypes
      <4>2. /\ authFailures < Limit /\ backoff >= Waited[authFailures].next
            /\ Aged(Waited[authFailures].sum - 0)
        BY <2>1, <3>2, <4>1 DEF SessionInv, UntriedAges
      <4>3. Waited[authFailures].sum - 0 = Waited[authFailures].sum
        BY <2>2, WaitedNumbers
      <4> QED BY <2>1, <2>2, <4>2, <4>3, Delays
    <3> QED BY <2>2, <3>1, <3>2
  <2>6. UntriedAges'
    <3> SUFFICES ASSUME ~tried'
                 PROVE  /\ age' > MinReauthAge \/ age' >= Waited[authFailures' - 1].sum
                        /\ backoff' >= Waited[authFailures' - 1].next
                        /\ wait' <= nap' /\ pc' = "refresh"
      BY DEF UntriedAges, Aged
    <3>1. authFailures' - 1 = authFailures
      BY <2>1, <2>2
    <3>2. wait' <= nap'
      BY <2>1 DEF SessionInv, SessionTypes
    <3> QED BY <2>1, <2>5, <3>1, <3>2 DEF Aged
  <2>7. LimitMeansLoginTried'
    BY <2>3, <2>5 DEF LimitMeansLoginTried
  <2> QED BY <2>1, <2>2, <2>4, <2>6, <2>7 DEF SessionInv
<1> QED BY <1>1, <1>2, <1>3

\* A refresh that finds the token too young: there is a rejection to come after this one.
LEMMA ReuseKeeps == ASSUME HandlerInv, SessionInv, FeedReuses PROVE SessionInv'
<1>1. /\ pc = "refresh" /\ ~mine /\ nap = 0 /\ ~busy /\ (age <= MinReauthAge \/ wait > 0)
      /\ pc' = "delay" /\ delay' = backoff /\ backoff' = AtMost(2 * backoff, DelayCap)
      /\ UNCHANGED <<authFailures, busy, age, failures, wait, mine, nap, tried>>
  BY DEF FeedReuses, RefreshReturns, StartDelay, NextBackoff, Rested, gate
<1>2. backoff \in Nat /\ authFailures \in 1..Limit
  BY <1>1, Delays DEF HandlerInv, TypeOK, Counted
<1>3. SessionTypes'
  BY <1>1 DEF SessionInv, SessionTypes
<1>4. backoff' >= Waited[0].next
  BY <1>1, <1>2, BackoffStays DEF SessionInv
<1>5. ASSUME ~tried
      PROVE  /\ authFailures < Limit /\ backoff' >= Waited[authFailures].next
             /\ Aged(Waited[authFailures].sum - backoff)
  <2> DEFINE k == authFailures - 1
  <2>1. k \in 0..Limit /\ k < Limit /\ k + 1 = authFailures
    BY <1>2, Delays
  <2>2. Aged(Waited[k].sum) /\ backoff >= Waited[k].next /\ wait <= nap
    BY <1>1, <1>2, <1>5 DEF SessionInv, UntriedAges
  <2>3. age <= MinReauthAge /\ age \in Nat /\ MinReauthAge \in Nat
    BY <1>1, <2>2, PacingAssumption DEF SessionInv, SessionTypes
  <2> HIDE DEF k
  <2>4. age >= Waited[k].sum
    BY <2>2, <2>3 DEF Aged
  <2>5. k # Limit - 1
    <3>1. Waited[k].sum \in Nat
      BY <2>1, WaitedNumbers
    <3> QED BY <2>3, <2>4, <3>1, PacingAssumption
  <2>6. authFailures < Limit
    BY <1>2, <2>1, <2>5, Delays
  <2>7. backoff' >= Waited[authFailures].next
    BY <1>1, <1>2, <2>1, <2>2, BackoffDoubles
  <2>8. Waited[authFailures].sum = Waited[k].sum + Waited[k].next
    BY <2>1, NextWait
  <2>9. age >= Waited[authFailures].sum - backoff
    <3>1. Waited[k].sum \in Nat /\ Waited[k].next \in Nat
      BY <2>1, WaitedNumbers
    <3> QED BY <1>2, <2>2, <2>3, <2>4, <2>8, <3>1
  <2> QED BY <2>6, <2>7, <2>9 DEF Aged
<1>6. UntriedAges'
  <2> SUFFICES ASSUME ~tried
               PROVE  /\ authFailures' < Limit /\ backoff' >= Waited[authFailures'].next
                      /\ \/ age' > MinReauthAge
                         \/ age' >= Waited[authFailures'].sum - delay'
    BY <1>1 DEF UntriedAges, Aged
  <2> QED BY <1>1, <1>5 DEF Aged
<1> QED BY <1>1, <1>3, <1>4, <1>6 DEF SessionInv, LimitMeansLoginTried

\* A login of the handler, and how it ends.
LEMMA LoginKeeps ==
  ASSUME HandlerInv, SessionInv,
         FeedLogsIn \/ FeedLoginSucceeds \/ FeedLoginFails \/ FeedLoginRaises
  PROVE  SessionInv'
<1>1. CASE FeedLogsIn
  <2>1. /\ pc = "refresh" /\ busy' = TRUE /\ mine' = TRUE /\ tried' = TRUE
        /\ UNCHANGED <<pc, authFailures, backoff, delay, age, wait, nap>>
    BY <1>1 DEF FeedLogsIn, Gate!Begin, vars
  <2>2. busy' \in BOOLEAN /\ mine' \in BOOLEAN /\ tried' \in BOOLEAN
    BY <2>1
  <2>3. SessionTypes'
    BY <2>1, <2>2 DEF SessionInv, SessionTypes
  <2> QED BY <2>1, <2>3 DEF SessionInv, UntriedAges, LimitMeansLoginTried
<1>2. CASE FeedLoginSucceeds \/ FeedLoginFails \/ FeedLoginRaises
  <2>1. /\ mine /\ mine' = FALSE /\ busy' = FALSE /\ pc' = "delay"
        /\ backoff' = AtMost(2 * backoff, DelayCap)
        /\ UNCHANGED <<nap, tried>>
    BY <1>2 DEF FeedLoginSucceeds, FeedLoginFails, FeedLoginRaises, RefreshReturns, RefreshRaises,
                StartDelay, NextBackoff, Gate!Succeed, Gate!Fail, Gate!Abandon
  <2>2. age' \in {age, 0} /\ wait' \in Int
    BY <1>2 DEF FeedLoginSucceeds, FeedLoginFails, FeedLoginRaises,
                Gate!Succeed, Gate!Fail, Gate!Abandon, SessionInv, SessionTypes
  <2>3. mine' \in BOOLEAN /\ busy' \in BOOLEAN
    BY <2>1
  <2>4. SessionTypes'
    BY <2>1, <2>2, <2>3, PacingAssumption DEF SessionInv, SessionTypes
  <2>5. tried /\ backoff \in Nat
    BY <2>1, Delays DEF SessionInv, HandlerInv, TypeOK
  <2>6. backoff' >= Waited[0].next
    BY <2>1, <2>5, BackoffStays DEF SessionInv
  <2> QED BY <2>1, <2>4, <2>5, <2>6 DEF SessionInv, UntriedAges, LimitMeansLoginTried
<1> QED BY <1>1, <1>2

\* The steps of the handler that do not connect.
LEMMA OtherStepKeeps ==
  ASSUME HandlerInv, SessionInv, (DelayEnds \/ ConnectionStep) /\ UNCHANGED session
  PROVE  SessionInv'
<1>1. UNCHANGED <<busy, age, failures, wait, mine, nap, tried>>
  BY DEF session, gate
<1>2. SessionTypes'
  BY <1>1 DEF SessionInv, SessionTypes
<1>3. CASE DelayEnds
  <2>1. /\ pc = "delay" /\ delay = 0 /\ pc' = "connect"
        /\ UNCHANGED <<authFailures, backoff, delay>>
    BY <1>3 DEF DelayEnds
  <2> QED BY <1>1, <1>2, <2>1 DEF SessionInv, UntriedAges, LimitMeansLoginTried, Aged
<1>4. CASE SocketClosed
  <2>1. pc = "close" /\ authFailures = 0 /\ authFailures' = 0 /\ ~mine
        /\ pc' \in {"cancelled", "delay"} /\ backoff \in Nat
        /\ backoff' \in {backoff, AtMost(2 * backoff, DelayCap)}
    BY <1>4, Delays DEF SocketClosed, StartDelay, NextBackoff, HandlerInv, TypeOK, Counted,
                        SessionInv
  <2>2. backoff' >= Waited[0].next
    BY <2>1, BackoffStays DEF SessionInv
  <2> QED BY <1>1, <1>2, <2>1, <2>2 DEF SessionInv, UntriedAges, LimitMeansLoginTried
<1>5. CASE TasksGathered \/ ConnectionEnds
  <2>1. /\ pc \in {"open", "gather", "gather_cancelled"} /\ authFailures = 0
        /\ pc' \in {"gather", "close", "cancelled"} /\ UNCHANGED <<authFailures, backoff>>
        /\ ~mine
    BY <1>5 DEF TasksGathered, ConnectionEnds, HandlerInv, Counted, SessionInv
  <2> QED BY <1>1, <1>2, <2>1 DEF SessionInv, UntriedAges, LimitMeansLoginTried
<1>6. CASE \/ FrameArrives \/ FrameHandled \/ FrameIgnored \/ ReaderEnds
           \/ HealthChecks \/ PingEnds \/ HealthWakes \/ TaskCancelled
  <2>1. UNCHANGED <<pc, authFailures, backoff, delay>>
    BY <1>6 DEF FrameArrives, FrameHandled, FrameIgnored, ReaderEnds, HealthChecks, PingEnds,
                HealthWakes, TaskCancelled, loop
  <2> QED BY <1>1, <1>2, <2>1 DEF SessionInv, UntriedAges, LimitMeansLoginTried, Aged
<1> QED BY <1>3, <1>4, <1>5, <1>6 DEF ConnectionStep

\* A cancelled feed connects no more.
LEMMA CancelledKeeps == ASSUME HandlerInv, SessionInv, FeedCancelled PROVE SessionInv'
<1>1. /\ ~Over /\ mine' = FALSE /\ pc' \in {"gather", "gather_cancelled", "cancelled"}
      /\ UNCHANGED <<authFailures, backoff, age, wait, nap, tried>>
  BY DEF FeedCancelled, Cancel, Gate!Abandon, gate
<1>2. busy' \in BOOLEAN /\ mine' \in BOOLEAN
  <2>1. busy' \in {busy, FALSE}
    BY DEF FeedCancelled, Gate!Abandon, gate
  <2> QED BY <1>1, <2>1 DEF SessionInv, SessionTypes
<1>3. SessionTypes'
  BY <1>1, <1>2 DEF SessionInv, SessionTypes
<1>4. UntriedAges' /\ LimitMeansLoginTried'
  BY <1>1 DEF UntriedAges, LimitMeansLoginTried
<1> QED BY <1>1, <1>3, <1>4 DEF SessionInv

\* A login of another caller counts as tried if it falls into a run of rejections.
LEMMA RestLoginKeeps ==
  ASSUME HandlerInv, SessionInv, RestLogsIn \/ RestLoginEnds
  PROVE  SessionInv'
<1>1. /\ tried' = (tried \/ authFailures > 0)
      /\ UNCHANGED <<pc, authFailures, backoff, delay, mine, nap>>
  BY DEF RestLogsIn, RestLoginEnds, RestLoginSucceeds, RestLoginFails, vars
<1>2. authFailures \in Nat
  BY Delays DEF HandlerInv, TypeOK
<1>3. tried' \in BOOLEAN /\ (tried => tried')
  BY <1>1, <1>2 DEF SessionInv, SessionTypes
<1>4. busy' \in BOOLEAN /\ age' \in {age, 0} /\ wait' \in Int
  <2>1. wait \in Int
    BY DEF SessionInv, SessionTypes
  <2>2. CASE RestLogsIn
    BY <2>1, <2>2 DEF RestLogsIn, Gate!Begin
  <2>3. CASE RestLoginSucceeds
    <3>1. busy' = FALSE /\ age' = 0 /\ wait' = 0
      BY <2>3 DEF RestLoginSucceeds, Gate!Succeed
    <3>2. busy' \in BOOLEAN
      BY <3>1
    <3> QED BY <3>1, <3>2
  <2>4. CASE RestLoginFails
    <3>1. busy' = FALSE /\ age' = age /\ wait' \in Int
      BY <2>1, <2>4 DEF RestLoginFails, Gate!Fail, Gate!Abandon
    <3> QED BY <3>1
  <2> QED BY <2>2, <2>3, <2>4 DEF RestLoginEnds
<1>5. SessionTypes'
  <2>1. age' \in 0..(MinReauthAge + 1)
    BY <1>4, PacingAssumption DEF SessionInv, SessionTypes
  <2> QED BY <1>1, <1>3, <1>4, <2>1 DEF SessionInv, SessionTypes
<1>6. UntriedAges'
  BY <1>1, <1>2 DEF UntriedAges
<1> QED BY <1>1, <1>3, <1>5, <1>6 DEF SessionInv, LimitMeansLoginTried

\* Time passes: the token ages as the delay runs down.
LEMMA TimeKeeps == ASSUME HandlerInv, SessionInv, Time PROVE SessionInv'
<1>1. /\ age' = AtMost(age + 1, MinReauthAge + 1)
      /\ wait' = AtLeast(wait - 1, 0) /\ nap' = AtLeast(nap - 1, 0)
      /\ delay' = AtLeast(delay - 1, 0)
      /\ UNCHANGED <<pc, authFailures, backoff, busy, mine, tried>>
  BY DEF Time, Tick, Gate!Pass, Gate!AtMost, Gate!AtLeast, AtMost, AtLeast
<1>2. age \in 0..(MinReauthAge + 1) /\ wait \in Int /\ nap \in Int /\ MinReauthAge \in Nat
  BY PacingAssumption DEF SessionInv, SessionTypes
<1>3. age' \in 0..(MinReauthAge + 1) /\ wait' \in Int /\ nap' \in Int
  BY <1>1, <1>2 DEF AtMost, AtLeast
<1>4. SessionTypes'
  BY <1>1, <1>3 DEF SessionInv, SessionTypes
<1>5. delay \in Nat /\ delay' \in Nat /\ delay' >= delay - 1
  BY <1>1, Delays DEF HandlerInv, TypeOK, AtLeast
<1>6. \A t \in Int : Aged(t) => Aged(t + 1)' /\ Aged(t)'
  BY <1>1, <1>2 DEF Aged, AtMost
<1>7. wait <= nap => wait' <= nap'
  BY <1>1, <1>2 DEF AtLeast
<1>8. UntriedAges'
  <2> SUFFICES ASSUME ~tried, authFailures > 0
               PROVE  UntriedAges'
    BY <1>1 DEF UntriedAges
  <2>1. authFailures \in 0..(Limit + 1)
    BY DEF HandlerInv, TypeOK
  <2>2. CASE pc = "refresh"
    <3>1. authFailures - 1 \in 0..Limit
      BY <2>1, Delays
    <3>2. Aged(Waited[authFailures - 1].sum) => Aged(Waited[authFailures - 1].sum)'
      <4>1. Waited[authFailures - 1].sum \in Int
        BY <3>1, WaitedNumbers
      <4> QED BY <1>1, <1>6, <4>1
    <3> QED BY <1>1, <1>7, <2>2, <3>2 DEF SessionInv, UntriedAges
  <2>3. CASE pc \in {"delay", "connect"}
    <3> DEFINE w == Waited[authFailures].sum
               d == IF pc = "delay" THEN delay ELSE 0
               left == IF pc = "delay" THEN delay' ELSE 0
    <3>1. authFailures < Limit /\ backoff >= Waited[authFailures].next /\ Aged(w - d)
      BY <2>3 DEF SessionInv, UntriedAges
    <3>2. w \in Int
      BY <2>1, <3>1, Delays, WaitedNumbers
    <3>3. d \in Nat /\ left \in Nat /\ left >= d - 1
      BY <1>5
    <3> HIDE DEF w, d, left
    <3>4. w - d \in Int /\ w - left \in Int /\ (w - d) + 1 >= w - left
      BY <3>2, <3>3
    <3>5. age' > MinReauthAge \/ age' >= (w - d) + 1
      <4>1. age > MinReauthAge \/ age >= w - d
        BY <3>1 DEF Aged
      <4>2. age' = IF age + 1 <= MinReauthAge + 1 THEN age + 1 ELSE MinReauthAge + 1
        BY <1>1 DEF AtMost
      <4> QED BY <1>2, <3>4, <4>1, <4>2
    <3>6. age' > MinReauthAge \/ age' >= w - left
      BY <1>3, <3>4, <3>5
    <3> USE DEF w, left
    <3> QED BY <1>1, <2>3, <3>1, <3>6 DEF UntriedAges, Aged
  <2>4. CASE pc \notin {"refresh", "delay", "connect"}
    BY <1>1, <2>4 DEF UntriedAges
  <2> QED BY <2>2, <2>3, <2>4
<1> QED BY <1>1, <1>4, <1>8 DEF SessionInv, LimitMeansLoginTried

\* Every step of the feed beside the rest of the session.
LEMMA SessionStep == HandlerInv /\ SessionInv /\ [FeedNext]_feedVars => SessionInv'
<1> SUFFICES ASSUME HandlerInv, SessionInv, [FeedNext]_feedVars PROVE SessionInv'
  OBVIOUS
<1>1. CASE FeedConnects \/ FeedRejected \/ FeedConnectFails
  BY <1>1, AttemptKeeps
<1>2. CASE FeedRefresh
  BY <1>2, ReuseKeeps, LoginKeeps DEF FeedRefresh
<1>3. CASE (DelayEnds \/ ConnectionStep) /\ UNCHANGED session
  BY <1>3, OtherStepKeeps
<1>4. CASE FeedCancelled
  BY <1>4, CancelledKeeps
<1>5. CASE RestLogsIn \/ RestLoginEnds
  BY <1>5, RestLoginKeeps
<1>6. CASE PresentTokenDies \/ OldTokenDies \/ UNCHANGED feedVars
  <2>1. UNCHANGED <<pc, authFailures, backoff, delay, busy, age, wait, mine, nap, tried>>
    BY <1>6 DEF PresentTokenDies, OldTokenDies, TokenDies, feedVars, vars, session, gate, loop
  <2> QED BY <2>1 DEF SessionInv, SessionTypes, UntriedAges, LimitMeansLoginTried, Aged
<1>7. CASE Time
  BY <1>7, TimeKeeps
<1> QED BY <1>1, <1>2, <1>3, <1>4, <1>5, <1>6, <1>7 DEF FeedNext

\* The process is never given up for a token that nobody has tried to replace, if the waits
\* of a run of rejections outlast the youth of a token.
THEOREM LimitMeansTried == FeedSpec => []LimitMeansLoginTried
<1>1. FeedSpec => []HandlerInv
  BY FeedIsHandler, HandlerInvariant, PTL
<1>2. HandlerInv /\ SessionInv /\ [FeedNext]_feedVars => SessionInv'
  BY SessionStep
<1>3. SessionInv => LimitMeansLoginTried
  BY DEF SessionInv
<1> QED BY <1>1, <1>2, <1>3, SessionStarts, PTL DEF FeedSpec
=============================================================================
