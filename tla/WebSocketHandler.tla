-------------------------- MODULE WebSocketHandler --------------------------
(***************************************************************************)
(* app/collector/websocket.py: the reconnect loop of run() and the two     *)
(* tasks it starts for each connection, the reader (_handle_messages) and  *)
(* the health monitor (monitor_connection_health).  A step runs from one   *)
(* await to the next.  The loop is cancelled at most once, by a shutdown.  *)
(***************************************************************************)
EXTENDS Integers

CONSTANTS
    DelayInitial,   \* config.WS_RECONNECT_DELAY_INITIAL
    DelayCap,       \* config.WS_RECONNECT_DELAY_CAP
    Limit,          \* config.WS_AUTH_FAILURE_LIMIT
    PingInterval,   \* config.WS_HEARTBEAT_INTERVAL
    SilenceTimeout, \* config.WS_HEARTBEAT_TIMEOUT
    CheckInterval   \* config.WS_HEALTH_CHECK_INTERVAL

ASSUME HandlerAssumption ==
    /\ DelayInitial \in Nat \ {0} /\ DelayCap \in Nat \ {0}
    /\ Limit \in Nat \ {0}
    /\ PingInterval \in Nat /\ SilenceTimeout \in Nat
    /\ CheckInterval \in Nat \ {0}

VARIABLES
    \* --- the loop ---
    pc,            \* where run() awaits
    ws,            \* self.ws is not None
    authFailures,  \* consecutive rejected handshakes
    backoff,       \* backoff_delay
    delay,         \* time left of the reconnection delay
    cancelled,     \* a CancelledError has been thrown into the loop
    \* --- its tasks ---
    reader,        \* _handle_messages
    health,        \* monitor_connection_health
    checkIn,       \* time until the monitor looks again
    silence,       \* time since last_message_time, up to SilenceTimeout + 1
    connAge,       \* time since connection_start_time, up to SilenceTimeout + 1
    \* --- Sense, and two histories ---
    url,           \* what Sense does with the token in ws_url
    unheard,       \* history: time since a frame was received, up to SilenceTimeout + 1
    badRefreshes   \* history: re-authentications without effect since the last
                   \* handshake that was not rejected

loop == <<pc, ws, authFailures, backoff, delay, cancelled>>
tasks == <<reader, health, checkIn>>
times == <<silence, connAge, unheard>>
vars == <<pc, ws, authFailures, backoff, delay, cancelled, reader, health,
          checkIn, silence, connAge, unheard, url, badRefreshes>>

AtMost(n, cap) == IF n <= cap THEN n ELSE cap
AtLeast(n, floor) == IF n >= floor THEN n ELSE floor

\* The states in which a child task has not ended.
ReaderLive == {"waiting", "handling", "cancelling"}
HealthLive == {"checking", "pinging", "sleeping", "cancelling"}

Over == pc \in {"cancelled", "limit"}

Init ==
    /\ pc = "connect"
    /\ ws = FALSE
    /\ authFailures = 0
    /\ backoff = DelayInitial
    /\ delay = 0
    /\ cancelled = FALSE
    /\ reader = "none" /\ health = "none" /\ checkIn = 0
    /\ silence = 0 /\ connAge = 0 /\ unheard = 0
    /\ url = "valid"
    /\ badRefreshes = 0

-----------------------------------------------------------------------------
(* Connecting *)

\* Faulty: the doubling has no cap.
NextBackoffUncapped == 2 * backoff

NextBackoff == AtMost(2 * backoff, DelayCap)

\* The wait before the next attempt; the one after it is twice as long.
StartDelay ==
    /\ pc' = "delay"
    /\ delay' = backoff
    /\ backoff' = NextBackoff

\* Faulty: the last message of the connection before counts for the new one.
StartClocksPartly == connAge' = 0 /\ unheard' = 0 /\ UNCHANGED silence

\* last_message_time and connection_start_time of a new connection.
StartClocks == silence' = 0 /\ connAge' = 0 /\ unheard' = 0

ConnectSucceeds ==
    /\ pc = "connect"
    /\ url = "valid"
    /\ pc' = "open"
    /\ ws' = TRUE
    /\ authFailures' = 0
    /\ backoff' = DelayInitial
    /\ reader' = "waiting"
    /\ health' = "checking"
    /\ StartClocks
    /\ badRefreshes' = 0
    /\ UNCHANGED <<delay, cancelled, checkIn, url>>

\* HTTP 401 or 403.  Beyond the limit the loop ends with an exception, before
\* it would refresh the URL once more.
ConnectRejected ==
    /\ pc = "connect"
    /\ url = "dead"
    /\ authFailures' = authFailures + 1
    /\ pc' = IF authFailures' > Limit THEN "limit" ELSE "refresh"
    /\ UNCHANGED <<ws, backoff, delay, cancelled, tasks, times, url, badRefreshes>>

\* Faulty: a network error leaves the count of rejections as it is.
AfterNetworkErrorUncleared == authFailures

\* auth_failures after a connect failure that is not a rejection.
AfterNetworkError == 0

ConnectFails ==
    /\ pc = "connect"
    /\ authFailures' = AfterNetworkError
    /\ badRefreshes' = 0
    /\ StartDelay
    /\ UNCHANGED <<ws, cancelled, tasks, times, url>>

\* Faulty: the URL captured at startup is presented again.
RefreshedUrlIgnored(new) == url

\* ws_url after refresh_ws_url has returned a URL.
RefreshedUrl(new) == new

\* The re-authentication returns a URL (with the token there was before, if
\* its login failed or was skipped), or raises and leaves ws_url alone.
RefreshReturns(new) ==
    /\ pc = "refresh"
    /\ url' = RefreshedUrl(new)
    /\ badRefreshes' = IF new = "dead" THEN badRefreshes + 1 ELSE badRefreshes
    /\ StartDelay
    /\ UNCHANGED <<ws, authFailures, cancelled, tasks, times>>

RefreshRaises ==
    /\ pc = "refresh"
    /\ badRefreshes' = badRefreshes + 1
    /\ StartDelay
    /\ UNCHANGED <<ws, authFailures, cancelled, tasks, times, url>>

DelayEnds ==
    /\ pc = "delay"
    /\ delay = 0
    /\ pc' = "connect"
    /\ UNCHANGED <<ws, authFailures, backoff, delay, cancelled, tasks, times, url,
                   badRefreshes>>

-----------------------------------------------------------------------------
(* The reader: one frame at a time *)

FrameArrives ==
    /\ reader = "waiting"
    /\ reader' = "handling"
    /\ unheard' = 0
    /\ UNCHANGED <<loop, health, checkIn, silence, connAge, url, badRefreshes>>

\* The callback has run; a disconnection notice ends the reader.
FrameHandled ==
    /\ reader = "handling"
    /\ silence' = 0
    /\ reader' \in {"waiting", "done"}
    /\ UNCHANGED <<loop, health, checkIn, connAge, unheard, url, badRefreshes>>

\* Not JSON, not an object, or an error on the way: last_message_time stays.
FrameIgnored ==
    /\ reader = "handling"
    /\ reader' = "waiting"
    /\ UNCHANGED <<loop, health, checkIn, times, url, badRefreshes>>

\* The server closed the connection, or it broke.
ReaderEnds ==
    /\ reader = "waiting"
    /\ reader' = "done"
    /\ UNCHANGED <<loop, health, checkIn, times, url, badRefreshes>>

-----------------------------------------------------------------------------
(* The health monitor *)

\* Faulty: the monitor only pings.
TooSilentNever == FALSE

TooSilent == silence > SilenceTimeout

\* Silence ends the monitor, a shorter silence makes it ping.
HealthChecks ==
    /\ health = "checking"
    /\ IF TooSilent THEN health' = "done" /\ UNCHANGED checkIn
       ELSE IF silence > PingInterval THEN health' = "pinging" /\ UNCHANGED checkIn
       ELSE health' = "sleeping" /\ checkIn' = CheckInterval
    /\ UNCHANGED <<loop, reader, times, url, badRefreshes>>

PingEnds ==
    /\ health = "pinging"
    /\ \/ health' = "sleeping" /\ checkIn' = CheckInterval
       \/ health' = "done" /\ UNCHANGED checkIn
    /\ UNCHANGED <<loop, reader, times, url, badRefreshes>>

HealthWakes ==
    /\ health = "sleeping"
    /\ checkIn = 0
    /\ health' = "checking"
    /\ UNCHANGED <<loop, reader, checkIn, times, url, badRefreshes>>

-----------------------------------------------------------------------------
(* The end of a connection: `finally` *)

\* Faulty: only the task that asyncio.wait returned as done is dealt with.
CancelTasksNot == UNCHANGED <<reader, health>>

\* Cancel each task that has not ended.
CancelTasks ==
    /\ reader' = IF reader = "done" THEN "done" ELSE "cancelling"
    /\ health' = IF health = "done" THEN "done" ELSE "cancelling"

ConnectionEnds ==
    /\ pc = "open"
    /\ reader = "done" \/ health = "done"
    /\ pc' = "gather"
    /\ CancelTasks
    /\ UNCHANGED <<ws, authFailures, backoff, delay, cancelled, checkIn, times, url,
                   badRefreshes>>

\* CancelledError reaches the task in the await it is in.
TaskCancelled ==
    /\ \/ reader = "cancelling" /\ reader' = "done" /\ UNCHANGED health
       \/ health = "cancelling" /\ health' = "done" /\ UNCHANGED reader
    /\ UNCHANGED <<loop, checkIn, times, url, badRefreshes>>

\* Faulty: the tasks are cancelled but not awaited.
TasksEndedNot == TRUE

TasksEnded == reader \notin ReaderLive /\ health \notin HealthLive

\* gather returns once both tasks have ended.  A cancellation that reached the
\* loop inside gather is raised then, before the socket is closed.
TasksGathered ==
    /\ pc \in {"gather", "gather_cancelled"}
    /\ TasksEnded
    /\ pc' = IF pc = "gather" THEN "close" ELSE "cancelled"
    /\ UNCHANGED <<ws, authFailures, backoff, delay, cancelled, tasks, times, url,
                   badRefreshes>>

\* self.ws.close() returns or fails; the loop goes on, unless it was cancelled.
SocketClosed ==
    /\ pc = "close"
    /\ ws' = FALSE
    /\ IF cancelled THEN pc' = "cancelled" /\ UNCHANGED <<backoff, delay>>
       ELSE StartDelay
    /\ UNCHANGED <<authFailures, cancelled, tasks, times, url, badRefreshes>>

\* A shutdown cancels the loop, wherever it awaits.
Cancel ==
    /\ ~cancelled /\ ~Over
    /\ cancelled' = TRUE
    /\ CASE pc = "open" -> pc' = "gather" /\ CancelTasks
         [] pc = "gather" -> pc' = "gather_cancelled" /\ UNCHANGED <<reader, health>>
         [] OTHER -> pc' = "cancelled" /\ UNCHANGED <<reader, health>>
    /\ UNCHANGED <<ws, authFailures, backoff, delay, checkIn, times, url, badRefreshes>>

-----------------------------------------------------------------------------
\* Sense stops accepting the token that the URL carries.  (A token that dies
\* before a refreshed URL was ever tried counts as a refresh without effect.)
TokenDies ==
    /\ url = "valid"
    /\ url' = "dead"
    /\ badRefreshes' = IF authFailures > 0 THEN badRefreshes + 1 ELSE badRefreshes
    /\ UNCHANGED <<loop, tasks, times>>

Tick ==
    /\ silence' = AtMost(silence + 1, SilenceTimeout + 1)
    /\ connAge' = AtMost(connAge + 1, SilenceTimeout + 1)
    /\ unheard' = AtMost(unheard + 1, SilenceTimeout + 1)
    /\ delay' = AtLeast(delay - 1, 0)
    /\ checkIn' = AtLeast(checkIn - 1, 0)
    /\ UNCHANGED <<pc, ws, authFailures, backoff, cancelled, reader, health, url,
                   badRefreshes>>

\* What happens while a connection is open, and as it ends.
ConnectionStep ==
    \/ FrameArrives \/ FrameHandled \/ FrameIgnored \/ ReaderEnds
    \/ HealthChecks \/ PingEnds \/ HealthWakes
    \/ ConnectionEnds \/ TaskCancelled \/ TasksGathered \/ SocketClosed

ConnectStep == ConnectSucceeds \/ ConnectRejected \/ ConnectFails

Next ==
    \/ ConnectStep \/ DelayEnds \/ ConnectionStep
    \/ RefreshRaises \/ \E new \in {"valid", "dead"} : RefreshReturns(new)
    \/ Cancel \/ TokenDies \/ Tick

Spec == Init /\ [][Next]_vars

(***************************************************************************)
(* Fairness.  Time passes and asyncio runs every ready task.  A handshake  *)
(* and a close are bounded by their timeouts, a ping by the ping_timeout   *)
(* of websockets.  A handshake is answered, if it is tried often enough.   *)
(* Nothing makes a frame arrive or its handling end: the write behind it   *)
(* may hang.  What a refresh is owed is stated where the logins are        *)
(* modelled, in FeedSession.                                               *)
(***************************************************************************)
Fairness ==
    /\ WF_vars(Tick)
    /\ WF_vars(ConnectStep) /\ SF_vars(ConnectSucceeds) /\ SF_vars(ConnectRejected)
    /\ WF_vars(DelayEnds)
    /\ WF_vars(HealthChecks) /\ WF_vars(PingEnds) /\ WF_vars(HealthWakes)
    /\ WF_vars(ConnectionEnds) /\ WF_vars(TaskCancelled)
    /\ WF_vars(TasksGathered) /\ WF_vars(SocketClosed)

FairSpec == Spec /\ Fairness

-----------------------------------------------------------------------------
(* Properties *)

\* The loop and its tasks are in one of their states.
TypeOK ==
    /\ pc \in {"connect", "refresh", "open", "gather", "gather_cancelled", "close",
               "delay", "cancelled", "limit"}
    /\ ws \in BOOLEAN /\ cancelled \in BOOLEAN
    /\ authFailures \in 0..(Limit + 1)
    /\ backoff \in 1..AtLeast(DelayInitial, DelayCap)
    /\ delay \in 0..AtLeast(DelayInitial, DelayCap)
    /\ reader \in ReaderLive \cup {"none", "done"}
    /\ health \in HealthLive \cup {"none", "done"}
    /\ checkIn \in 0..CheckInterval
    /\ silence \in 0..(SilenceTimeout + 1)
    /\ connAge \in 0..(SilenceTimeout + 1)
    /\ unheard \in 0..(SilenceTimeout + 1)
    /\ url \in {"valid", "dead"}
    /\ badRefreshes \in Nat

\* The comment in run(): the child tasks are always cancelled and awaited, on
\* the cancel path too.  No task of a connection is left when the loop waits,
\* connects again or ends, even if the cancellation reaches it in `finally`.
TasksEndWithConnection ==
    pc \notin {"open", "gather", "gather_cancelled"} =>
        reader \in {"none", "done"} /\ health \in {"none", "done"}

\* The monitor never judges a connection by the silence of the one before: it
\* cannot have been silent for longer than it is open.
SilenceIsOfThisConnection ==
    pc = "open" => silence <= connAge

\* The loop gives up only for credentials: every one of Limit re-authentications
\* in a row failed or brought a token that Sense refused, and no other connect
\* result came between.
LimitMeansBadCredentials ==
    pc = "limit" => badRefreshes >= Limit

\* A connection on which nothing is handled for SilenceTimeout is given up,
\* even while the handling of a frame hangs.
SilenceIsNoticed ==
    (pc = "open" /\ silence > SilenceTimeout) ~> (pc # "open" \/ silence = 0)

\* The comment in monitor_connection_health and its message "No data received
\* for ..., reconnecting": the monitor gives a connection up only if no frame
\* was received for SilenceTimeout.
SilentMeansNothingReceived ==
    [][HealthChecks /\ health' = "done" => unheard > SilenceTimeout]_vars

\* A shutdown ends the loop from wherever it is, without waiting out the delay.
CancelEndsLoop == cancelled ~> Over
=============================================================================
