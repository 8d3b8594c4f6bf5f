------------------------------ MODULE SenseAuth ------------------------------
(***************************************************************************)
(* The access token of app/collector/client.py: who logs in again, when,   *)
(* and what a REST request does with a 401.  Every task that talks to      *)
(* Sense is a caller:                                                      *)
(*   - a member of Requests runs fetch_devices, fetch_device_data or       *)
(*     fetch_monitor_status over and over: check_token_renewal, then       *)
(*     make_api_request with its retries;                                  *)
(*   - Feed is the WebSocket handler, which calls refresh_ws_url whenever  *)
(*     the realtime service rejects its URL.                               *)
(* A step runs from one await to the next, as asyncio does.  Times are     *)
(* ages and times left, in ticks, so that no clock needs a bound.  The     *)
(* semaphore and the minimum interval of make_api_request are modelled in  *)
(* ApiPacing: here a request is "ready" for as long as they hold it.       *)
(***************************************************************************)
EXTENDS Integers

CONSTANTS
    Requests,       \* tasks that make REST requests
    Feed,           \* the WebSocket handler
    Nobody,         \* "the lock is free"
    Cancellable,    \* the callers that a shutdown may cancel
    MinReauthAge,   \* config.AUTH_MIN_REAUTH_AGE
    RenewInterval,  \* config.TOKEN_RENEW_INTERVAL
    RetryBase,      \* config.API_RETRY_BACKOFF_BASE
    AuthMaxDelay,   \* config.AUTH_RETRY_MAX_DELAY
    RequestMaxWait, \* config.API_RETRY_AFTER_MAX
    MaxRetries,     \* config.API_RETRY_MAX
    RetryAfters,    \* the waits a 429 may ask for
    MaxFailures     \* login failures counted apart (see LoginGate)

Callers == Requests \cup {Feed}

ASSUME AuthAssumption ==
    /\ Feed \notin Requests
    /\ Nobody \notin Callers
    /\ Cancellable \subseteq Callers
    /\ MinReauthAge \in Nat /\ RenewInterval \in Nat
    /\ MinReauthAge <= RenewInterval
    /\ AuthMaxDelay \in Nat /\ RequestMaxWait \in Nat
    /\ MaxRetries \in Nat /\ RetryAfters \subseteq Nat
    /\ MaxFailures \in Nat \ {0}
    /\ \A k \in 0..MaxFailures : RetryBase^k \in Nat
    /\ RetryBase^MaxFailures >= AuthMaxDelay
    /\ \A k \in 0..MaxRetries : RetryBase^k \in Nat

VARIABLES
    \* --- SenseCollector ---
    tokenAge,      \* _token_age(), counted up to RenewInterval + 1
    authFailures,  \* _auth_failures, counted up to MaxFailures
    authRetryAt,   \* _auth_retry_at, as the time left until then
    authLock,      \* who holds _auth_lock
    shutdown,      \* shutdown_event
    \* --- the callers ---
    pc,            \* where each caller awaits
    reason,        \* why it is in _renew: "due" or "refused"
    retries,       \* retry_count of its request
    issued,        \* issued[c]: the attempt of c was sent with the present token
    sleep,         \* time left of its sleep
    \* --- Sense, and a history ---
    accepted,      \* Sense accepts the present token
    refused        \* history: the request of c saw the present token refused

collector == <<tokenAge, authFailures, authRetryAt>>
caller == <<pc, reason, retries, issued, sleep>>
vars == <<tokenAge, authFailures, authRetryAt, authLock, shutdown,
          pc, reason, retries, issued, sleep, accepted, refused>>

AtMost(n, cap) == IF n <= cap THEN n ELSE cap
AtLeast(n, floor) == IF n >= floor THEN n ELSE floor

Places == {"idle", "renew", "login", "ready", "sent", "throttled", "backoff",
           "waiting", "stopped"}

-----------------------------------------------------------------------------
(* Delays *)

LoginBackoff(k) == AtMost(RetryBase^k, AuthMaxDelay)

\* Faulty: a login's Retry-After is taken as it comes.
LoginDelayUncapped(k, hint) == AtLeast(LoginBackoff(k), hint)

\* The wait after the k-th failed login: a 429 may lengthen it, up to the cap.
LoginDelay(k, hint) == AtLeast(LoginBackoff(k), AtMost(hint, AuthMaxDelay))

\* How long a 429 parks a request.
ThrottleDelay(hint) == AtMost(hint, RequestMaxWait)

RequestBackoff(n) == RetryBase^n

\* Faulty: any token may be replaced.
MinAgeIgnored(c) == 0

\* The age up to which a token is not replaced, by the reason to replace it.
MinAge(c) == IF reason[c] = "due" THEN RenewInterval ELSE MinReauthAge

-----------------------------------------------------------------------------
Init ==
    /\ tokenAge = 0
    /\ authFailures = 0
    /\ authRetryAt = 0
    /\ authLock = Nobody
    /\ shutdown = FALSE
    /\ pc = [c \in Callers |-> "idle"]
    /\ reason = [c \in Callers |-> "due"]
    /\ retries = [c \in Callers |-> 0]
    /\ issued = [c \in Callers |-> FALSE]
    /\ sleep = [c \in Callers |-> 0]
    /\ accepted = TRUE
    /\ refused = [c \in Callers |-> FALSE]

Goto(c, place) == pc' = [pc EXCEPT ![c] = place]

\* The top of the retry loop with retry_count = n: send once more with the
\* present token, or give the request up.
Attempt(c, n, now) ==
    IF n <= MaxRetries
    THEN /\ Goto(c, "sent")
         /\ retries' = [retries EXCEPT ![c] = n]
         /\ issued' = [now EXCEPT ![c] = TRUE]
    ELSE /\ Goto(c, "idle")
         /\ issued' = now
         /\ UNCHANGED retries

\* Faulty: the request is repeated whether or not a newer token came.
AfterRenewUnchecked(c, now) ==
    IF c \in Requests /\ reason[c] = "refused"
    THEN Attempt(c, retries[c] + 1, now)
    ELSE /\ Goto(c, IF reason[c] = "due" THEN "ready" ELSE "idle")
         /\ issued' = now
         /\ UNCHANGED retries

\* Faulty: the 401 is not counted as a retry.
AfterRenewUncounted(c, now) ==
    IF c \in Requests /\ reason[c] = "refused" /\ ~now[c]
    THEN Attempt(c, retries[c], now)
    ELSE /\ Goto(c, IF reason[c] = "due" THEN "ready" ELSE "idle")
         /\ issued' = now
         /\ UNCHANGED retries

\* What c does when _renew returns; now[c] tells whether the token that its
\* refused attempt was sent with is still the present one.
AfterRenew(c, now) ==
    IF c \in Requests /\ reason[c] = "refused" /\ ~now[c]
    THEN Attempt(c, retries[c] + 1, now)
    ELSE /\ Goto(c, IF reason[c] = "due" THEN "ready" ELSE "idle")
         /\ issued' = now
         /\ UNCHANGED retries

-----------------------------------------------------------------------------
(* REST requests *)

\* The next fetch begins: a token past its renewal age is renewed first.
StartRequest(c) ==
    /\ pc[c] = "idle"
    /\ refused' = [refused EXCEPT ![c] = FALSE]
    /\ IF tokenAge > RenewInterval
       THEN Goto(c, "renew") /\ reason' = [reason EXCEPT ![c] = "due"]
       ELSE Goto(c, "ready") /\ UNCHANGED reason
    /\ UNCHANGED <<collector, authLock, shutdown, retries, issued, sleep, accepted>>

FirstAttempt(c) ==
    /\ pc[c] = "ready"
    /\ Attempt(c, 0, issued)
    /\ UNCHANGED <<collector, authLock, shutdown, reason, sleep, accepted, refused>>

\* A token that Sense no longer accepts gets no payload.
Answered(c) ==
    /\ pc[c] = "sent"
    /\ issued[c] => accepted
    /\ Goto(c, "idle")
    /\ UNCHANGED <<collector, authLock, shutdown, reason, retries, issued, sleep,
                   accepted, refused>>

\* The 401 answers the token in use: `auth_time is issued`.
RefusalIsCurrent(c) == issued[c]

\* 401: renew only if no newer token has come since this attempt was sent.
Refused(c) ==
    /\ pc[c] = "sent"
    /\ refused' = [refused EXCEPT ![c] = @ \/ issued[c]]
    /\ IF RefusalIsCurrent(c)
       THEN /\ Goto(c, "renew")
            /\ reason' = [reason EXCEPT ![c] = "refused"]
            /\ UNCHANGED <<retries, issued>>
       ELSE /\ Attempt(c, retries[c] + 1, issued)
            /\ UNCHANGED reason
    /\ UNCHANGED <<collector, authLock, shutdown, sleep, accepted>>

\* 429: an interruptible sleep of the asked, clamped, length.
Throttled(c) ==
    /\ pc[c] = "sent"
    /\ \E hint \in RetryAfters \cup {RequestBackoff(retries[c])} :
          sleep' = [sleep EXCEPT ![c] = ThrottleDelay(hint)]
    /\ Goto(c, "throttled")
    /\ UNCHANGED <<collector, authLock, shutdown, reason, retries, issued, accepted, refused>>

ThrottleEnds(c) ==
    /\ pc[c] = "throttled"
    /\ \/ /\ shutdown
          /\ Goto(c, "idle")
          /\ UNCHANGED <<retries, issued>>
       \/ /\ ~shutdown
          /\ sleep[c] = 0
          /\ Attempt(c, retries[c] + 1, issued)
    /\ sleep' = [sleep EXCEPT ![c] = 0]
    /\ UNCHANGED <<collector, authLock, shutdown, reason, accepted, refused>>

\* Any other status, a timeout or a dropped connection.
Failed(c) ==
    /\ pc[c] = "sent"
    /\ IF retries[c] + 1 <= MaxRetries
       THEN /\ Goto(c, "backoff")
            /\ retries' = [retries EXCEPT ![c] = @ + 1]
            /\ sleep' = [sleep EXCEPT ![c] = RequestBackoff(retries[c] + 1)]
       ELSE /\ Goto(c, "idle")
            /\ UNCHANGED <<retries, sleep>>
    /\ UNCHANGED <<collector, authLock, shutdown, reason, issued, accepted, refused>>

\* asyncio.sleep: a shutdown does not cut it short.
BackoffEnds(c) ==
    /\ pc[c] = "backoff"
    /\ sleep[c] = 0
    /\ Attempt(c, retries[c], issued)
    /\ UNCHANGED <<collector, authLock, shutdown, reason, sleep, accepted, refused>>

-----------------------------------------------------------------------------
(* The WebSocket handler *)

\* A rejected handshake: wait out the backoff of a failed login, then renew.
FeedRejected ==
    /\ pc[Feed] = "idle"
    /\ reason' = [reason EXCEPT ![Feed] = "refused"]
    /\ IF authRetryAt > 0
       THEN /\ Goto(Feed, "waiting")
            /\ sleep' = [sleep EXCEPT ![Feed] = authRetryAt]
       ELSE /\ Goto(Feed, "renew")
            /\ UNCHANGED sleep
    /\ UNCHANGED <<collector, authLock, shutdown, retries, issued, accepted, refused>>

FeedWaitEnds ==
    /\ pc[Feed] = "waiting"
    /\ sleep[Feed] = 0 \/ shutdown
    /\ Goto(Feed, "renew")
    /\ sleep' = [sleep EXCEPT ![Feed] = 0]
    /\ UNCHANGED <<collector, authLock, shutdown, reason, retries, issued, accepted, refused>>

-----------------------------------------------------------------------------
(* _renew *)

\* Faulty: a login that failed is never tried again.
BackingOffForGood == authFailures > 0

BackingOff == authRetryAt > 0

\* The lock is won and nothing is left to do: the token is young (another
\* caller renewed it meanwhile), or a failed login is backing off.
RenewSkipped(c) ==
    /\ pc[c] = "renew"
    /\ authLock = Nobody
    /\ tokenAge <= MinAge(c) \/ BackingOff
    /\ AfterRenew(c, issued)
    /\ UNCHANGED <<collector, authLock, shutdown, reason, sleep, accepted, refused>>

\* Faulty: _auth_lock is not taken.
LoginStartsUnlocked(c) ==
    /\ pc[c] = "renew"
    /\ tokenAge > MinAge(c)
    /\ ~BackingOff
    /\ authLock' = c
    /\ Goto(c, "login")
    /\ UNCHANGED <<collector, shutdown, reason, retries, issued, sleep, accepted, refused>>

\* The lock is won and the password login is sent.
LoginStarts(c) ==
    /\ pc[c] = "renew"
    /\ authLock = Nobody
    /\ tokenAge > MinAge(c)
    /\ ~BackingOff
    /\ authLock' = c
    /\ Goto(c, "login")
    /\ UNCHANGED <<collector, shutdown, reason, retries, issued, sleep, accepted, refused>>

\* authenticate() replaces token, headers and issue time together.  Sense may
\* refuse even the new token: it then refuses it for another reason than age.
LoginSucceeds(c) ==
    /\ pc[c] = "login"
    /\ tokenAge' = 0
    /\ authFailures' = 0
    /\ authRetryAt' = 0
    /\ authLock' = Nobody
    /\ accepted' \in BOOLEAN
    /\ refused' = [r \in Callers |-> FALSE]
    /\ AfterRenew(c, [r \in Callers |-> FALSE])
    /\ UNCHANGED <<shutdown, reason, sleep>>

\* An HTTP error or a malformed answer: the present token is kept.
LoginFails(c) ==
    /\ pc[c] = "login"
    /\ authFailures' = AtMost(authFailures + 1, MaxFailures)
    /\ \E hint \in RetryAfters \cup {0} :
          authRetryAt' = LoginDelay(authFailures', hint)
    /\ authLock' = Nobody
    /\ AfterRenew(c, issued)
    /\ UNCHANGED <<tokenAge, shutdown, reason, sleep, accepted, refused>>

-----------------------------------------------------------------------------
(* Shutdown, time and Sense *)

ShutdownRequested ==
    /\ ~shutdown
    /\ shutdown' = TRUE
    /\ UNCHANGED <<collector, authLock, caller, accepted, refused>>

\* CancelledError at whatever await the caller is in; `async with` lets go of
\* the lock.
Cancelled(c) ==
    /\ shutdown
    /\ c \in Cancellable
    /\ pc[c] # "stopped"
    /\ Goto(c, "stopped")
    /\ authLock' = IF authLock = c THEN Nobody ELSE authLock
    /\ UNCHANGED <<collector, shutdown, reason, retries, issued, sleep, accepted, refused>>

\* The loop of the caller sees the shutdown between two requests; the feed
\* looks for no shutdown, it is cancelled.
Stops(c) ==
    /\ shutdown
    /\ pc[c] = "idle"
    /\ Goto(c, "stopped")
    /\ UNCHANGED <<collector, authLock, shutdown, reason, retries, issued, sleep,
                   accepted, refused>>

Tick ==
    /\ tokenAge' = AtMost(tokenAge + 1, RenewInterval + 1)
    /\ authRetryAt' = AtLeast(authRetryAt - 1, 0)
    /\ sleep' = [c \in Callers |-> AtLeast(sleep[c] - 1, 0)]
    /\ UNCHANGED <<authFailures, authLock, shutdown, pc, reason, retries, issued,
                   accepted, refused>>

\* Sense stops accepting the present token.
Revoke ==
    /\ accepted
    /\ accepted' = FALSE
    /\ UNCHANGED <<collector, authLock, shutdown, caller, refused>>

RequestStep(c) ==
    \/ StartRequest(c) \/ FirstAttempt(c)
    \/ Answered(c) \/ Refused(c) \/ Throttled(c) \/ Failed(c)
    \/ ThrottleEnds(c) \/ BackoffEnds(c)

FeedStep == FeedRejected \/ FeedWaitEnds

RenewStep(c) ==
    RenewSkipped(c) \/ LoginStarts(c) \/ LoginSucceeds(c) \/ LoginFails(c)

Next ==
    \/ \E c \in Requests : RequestStep(c) \/ Stops(c)
    \/ FeedStep
    \/ \E c \in Callers : RenewStep(c) \/ Cancelled(c)
    \/ ShutdownRequested
    \/ Tick
    \/ Revoke

Spec == Init /\ [][Next]_vars

(***************************************************************************)
(* Fairness.  Time passes.  Every HTTP exchange ends, because HTTP_TIMEOUT *)
(* and HTTP_AUTH_TIMEOUT bound it.  A finished sleep wakes its task.       *)
(* asyncio.Lock serves its waiters in order, so a caller in _renew is      *)
(* served if the lock is free again and again.  The periodic tasks and the *)
(* workers keep asking.  Sense answers 401 to a token it does not accept,  *)
(* if it is asked often enough.                                            *)
(***************************************************************************)
Fairness ==
    /\ WF_vars(Tick)
    /\ \A c \in Requests :
          /\ WF_vars(StartRequest(c))
          /\ WF_vars(FirstAttempt(c))
          /\ WF_vars(Answered(c) \/ Refused(c) \/ Throttled(c) \/ Failed(c))
          /\ SF_vars(~accepted /\ Refused(c))
          /\ WF_vars(ThrottleEnds(c))
          /\ WF_vars(BackoffEnds(c))
    /\ WF_vars(FeedWaitEnds)
    /\ \A c \in Callers :
          /\ SF_vars(RenewSkipped(c) \/ LoginStarts(c))
          /\ WF_vars(LoginSucceeds(c) \/ LoginFails(c))

FairSpec == Spec /\ Fairness

-----------------------------------------------------------------------------
(* Properties *)

\* The state of the token, of the lock and of every caller has its type.
TypeOK ==
    /\ tokenAge \in 0..(RenewInterval + 1)
    /\ authFailures \in 0..MaxFailures
    /\ authRetryAt \in 0..AuthMaxDelay
    /\ authLock \in Callers \cup {Nobody}
    /\ shutdown \in BOOLEAN
    /\ pc \in [Callers -> Places]
    /\ reason \in [Callers -> {"due", "refused"}]
    /\ retries \in [Callers -> 0..MaxRetries]
    /\ issued \in [Callers -> BOOLEAN]
    /\ sleep \in [Callers -> Nat]
    /\ accepted \in BOOLEAN
    /\ refused \in [Callers -> BOOLEAN]

\* _auth_lock makes password logins single-flight, and a login never runs
\* while the wait after a failed one does: no caller can have passed the check
\* of _renew before another one's login failed.
LoginsAreExclusive ==
    \A c \in Callers : pc[c] = "login" =>
        /\ authRetryAt = 0
        /\ \A d \in Callers : pc[d] = "login" => d = c

\* make_api_request never repeats a request with a token that has already
\* answered it with 401, however renewals by other callers, throttling and
\* backoff come between the 401 and the retry.
NoResendOfRefusedToken ==
    \A c \in Requests : pc[c] = "sent" /\ issued[c] => ~refused[c]

Gate == INSTANCE LoginGate WITH
    busy <- \E c \in Callers : pc[c] = "login",
    age <- tokenAge,
    failures <- authFailures,
    wait <- authRetryAt

\* Whatever the callers do, the logins keep the promise of LoginGate: one at a
\* time, paced after a failure, none for a token younger than MinReauthAge.
ImplementsLoginGate == Gate!GateSpec

\* No request and no refresh_ws_url hangs: it ends however often it is
\* throttled, refused or failed, and however other callers use the lock.
EveryCallEnds ==
    \A c \in Callers : pc[c] # "idle" ~> pc[c] \in {"idle", "stopped"}

\* A token Sense no longer accepts does not stay in use unnoticed: as long as
\* the collector runs, it logs in again (or Sense takes the token after all).
RefusedTokenIsRenewed ==
    ~accepted ~> (accepted \/ shutdown \/ \E c \in Callers : pc[c] = "login")
=============================================================================
