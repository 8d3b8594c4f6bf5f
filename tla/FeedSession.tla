----------------------------- MODULE FeedSession -----------------------------
(***************************************************************************)
(* The WebSocket handler together with the logins it depends on.  Sense    *)
(* carries the token in the URL of the feed: after a rejected handshake    *)
(* the handler asks refresh_ws_url (app/collector/client.py) for a new     *)
(* URL, which logs in through the same gate as every REST caller.  The     *)
(* handler is WebSocketHandler; the logins are those LoginGate allows,     *)
(* which is what SenseAuth implements.                                     *)
(***************************************************************************)
EXTENDS WebSocketHandler

CONSTANTS
    MinReauthAge,   \* config.AUTH_MIN_REAUTH_AGE
    RetryBase,      \* config.API_RETRY_BACKOFF_BASE
    AuthMaxDelay    \* config.AUTH_RETRY_MAX_DELAY

VARIABLES
    busy, age, failures, wait,  \* of LoginGate
    mine,       \* the login in progress is the handler's
    accepted,   \* the realtime service takes the present token
    current,    \* ws_url carries the present token
    nap,        \* time left of the backoff that refresh_ws_url waits out
    tried       \* history: a login was under way since the first of the
                \* rejections that authFailures counts

Gate == INSTANCE LoginGate WITH RenewInterval <- MinReauthAge, MaxFailures <- 1

gate == <<busy, age, failures, wait>>
token == <<accepted, current>>
session == <<gate, mine, token, nap, tried>>
feedVars == <<vars, session>>

\* Of a run of rejections: the least that the waits so far add up to, and the least that the
\* next one takes.  (It starts from the cap if a network error came before.)
NoWait == [sum |-> 0, next |-> AtMost(DelayInitial, DelayCap)]
OneWaitMore(w) == [sum |-> w.sum + w.next, next |-> AtMost(2 * w.next, DelayCap)]

\* After k waits.
Waited[k \in 0..Limit] == IF k = 0 THEN NoWait ELSE OneWaitMore(Waited[k - 1])

\* The default settings leave 5 + 10 + 20 + 40 s for the 60 s of AUTH_MIN_REAUTH_AGE.
ASSUME PacingAssumption == MinReauthAge \in Nat /\ Waited[Limit - 1].sum > MinReauthAge

FeedInit ==
    /\ Init
    /\ Gate!GateInit
    /\ mine = FALSE /\ nap = 0 /\ tried = FALSE
    /\ accepted = TRUE /\ current = TRUE

UrlOf(ok) == IF ok THEN "valid" ELSE "dead"

-----------------------------------------------------------------------------
(* The handler *)

FeedConnects ==
    /\ ConnectSucceeds
    /\ tried' = FALSE
    /\ UNCHANGED <<gate, mine, token, nap>>

\* The refresh that follows first waits out the backoff of a failed login.
FeedRejected ==
    /\ ConnectRejected
    /\ nap' = wait
    /\ tried' = (tried /\ authFailures > 0)
    /\ UNCHANGED <<gate, mine, token>>

FeedConnectFails ==
    /\ ConnectFails
    /\ tried' = FALSE
    /\ UNCHANGED <<gate, mine, token, nap>>

\* Faulty: the backoff of a failed login is not waited out.
RestedNot == TRUE

Rested == nap = 0

\* The lock is free: a login starts, if the gate lets it.
FeedLogsIn ==
    /\ pc = "refresh" /\ ~mine
    /\ Rested
    /\ Gate!Begin
    /\ mine' = TRUE
    /\ tried' = TRUE
    /\ UNCHANGED <<vars, token, nap>>

\* Another caller has just renewed the token, or has failed to: no login.
FeedReuses ==
    /\ pc = "refresh" /\ ~mine
    /\ Rested /\ ~busy
    /\ age <= MinReauthAge \/ wait > 0
    /\ RefreshReturns(UrlOf(accepted))
    /\ current' = TRUE
    /\ UNCHANGED <<gate, mine, accepted, nap, tried>>

\* The URL carries the token that the login has brought, which may be refused as well.
FeedLoginSucceeds ==
    /\ mine
    /\ Gate!Succeed
    /\ mine' = FALSE
    /\ accepted' \in BOOLEAN
    /\ RefreshReturns(UrlOf(accepted'))
    /\ current' = TRUE
    /\ UNCHANGED <<nap, tried>>

\* A failed login keeps the token, and the URL is built with it.
FeedLoginFails ==
    /\ mine
    /\ Gate!Fail
    /\ mine' = FALSE
    /\ RefreshReturns(UrlOf(accepted))
    /\ current' = TRUE
    /\ UNCHANGED <<accepted, nap, tried>>

\* An error that _renew does not take for a failed login reaches the handler.
FeedLoginRaises ==
    /\ mine
    /\ Gate!Abandon
    /\ mine' = FALSE
    /\ RefreshRaises
    /\ UNCHANGED <<token, nap, tried>>

\* A cancelled login lets the lock go.
FeedCancelled ==
    /\ Cancel
    /\ IF mine THEN Gate!Abandon ELSE UNCHANGED gate
    /\ mine' = FALSE
    /\ UNCHANGED <<token, nap, tried>>

-----------------------------------------------------------------------------
(* The REST callers and Sense *)

RestLogsIn ==
    /\ ~Over
    /\ Gate!Begin
    /\ tried' = (tried \/ authFailures > 0)
    /\ UNCHANGED <<vars, mine, token, nap>>

\* ws_url keeps the token there was before.
RestLoginSucceeds ==
    /\ busy /\ ~mine
    /\ Gate!Succeed
    /\ accepted' \in BOOLEAN
    /\ current' = FALSE
    /\ tried' = (tried \/ authFailures > 0)
    /\ UNCHANGED <<vars, mine, nap>>

RestLoginFails ==
    /\ busy /\ ~mine
    /\ Gate!Fail \/ Gate!Abandon
    /\ tried' = (tried \/ authFailures > 0)
    /\ UNCHANGED <<vars, mine, token, nap>>

\* The present token dies, in the URL too if that carries it.
PresentTokenDies ==
    /\ ~Over
    /\ accepted
    /\ accepted' = FALSE
    /\ IF current THEN TokenDies ELSE UNCHANGED vars
    /\ UNCHANGED <<gate, mine, current, nap, tried>>

\* The token that a REST caller has replaced dies in the URL.
OldTokenDies ==
    /\ ~current /\ ~Over
    /\ TokenDies
    /\ UNCHANGED session

Time ==
    /\ Tick
    /\ Gate!Pass
    /\ nap' = AtLeast(nap - 1, 0)
    /\ UNCHANGED <<mine, token, tried>>

-----------------------------------------------------------------------------

FeedRefresh ==
    FeedLogsIn \/ FeedReuses \/ FeedLoginSucceeds \/ FeedLoginFails \/ FeedLoginRaises

RestLoginEnds == RestLoginSucceeds \/ RestLoginFails

FeedNext ==
    \/ FeedConnects \/ FeedRejected \/ FeedConnectFails
    \/ FeedRefresh
    \/ (DelayEnds \/ ConnectionStep) /\ UNCHANGED session
    \/ FeedCancelled
    \/ RestLogsIn \/ RestLoginEnds
    \/ PresentTokenDies \/ OldTokenDies
    \/ Time

FeedSpec == FeedInit /\ [][FeedNext]_feedVars

(***************************************************************************)
(* Fairness, beyond that of the handler.  A login ends, by its timeouts;   *)
(* the lock is handed on in the order of asking, so the handler gets it in *)
(* the end; and a login that a caller tries often enough succeeds.         *)
(***************************************************************************)
FeedFairness ==
    /\ Fairness
    /\ WF_feedVars(Time)
    /\ WF_feedVars(RestLoginEnds)
    /\ SF_feedVars(FeedRefresh)
    /\ SF_feedVars(FeedLoginSucceeds) /\ SF_feedVars(RestLoginSucceeds)

FairFeedSpec == FeedSpec /\ FeedFairness

-----------------------------------------------------------------------------
(* Properties *)

\* The comment at WS_AUTH_FAILURE_LIMIT in app/core/config.py: each rejection is followed
\* by a re-authentication unless the token is young, "so this trips when fresh tokens
\* keep being refused or the re-authentication keeps failing".  However the waits, the
\* pacing of the logins and the REST callers' own logins fall, the process is never
\* given up for a token that nobody has tried to replace.
LimitMeansLoginTried == pc = "limit" => tried

\* Sense turns away a token it took before, or issues one that the feed does not take.
TokenFails == (accepted /\ ~accepted') \/ (url = "valid" /\ url' = "dead")
BadTokenIssued == age' = 0 /\ age > 0 /\ ~accepted'

\* A lost feed comes back, unless the loop ends: by a shutdown, or because the
\* credentials stay refused.  (Sense could also refuse each new token, or revoke it
\* before the handler has tried it; the property is about a Sense that stops that.)
FeedReturns ==
    <>[][~TokenFails /\ ~BadTokenIssued]_feedVars =>
        (pc # "open" ~> (pc = "open" \/ Over))
=============================================================================
