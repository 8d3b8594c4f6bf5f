------------------------------ MODULE LoginGate ------------------------------
(***************************************************************************)
(* What the collector promises Sense about password logins, whoever asks   *)
(* for them: one at a time, none while the wait after a failed one runs,   *)
(* and none that would replace a token younger than MinReauthAge.          *)
(* SenseAuth implements this specification; it states what the constants   *)
(* are assumed to be.                                                      *)
(***************************************************************************)
EXTENDS Integers

CONSTANTS
    MinReauthAge,   \* config.AUTH_MIN_REAUTH_AGE
    RenewInterval,  \* config.TOKEN_RENEW_INTERVAL: ages beyond it look alike
    RetryBase,      \* config.API_RETRY_BACKOFF_BASE
    AuthMaxDelay,   \* config.AUTH_RETRY_MAX_DELAY
    MaxFailures     \* failures counted apart; more of them wait the same

VARIABLES
    busy,       \* a password login is in progress
    age,        \* time since the present token was issued
    failures,   \* logins that failed in a row
    wait        \* time left before another login may start

gateVars == <<busy, age, failures, wait>>

AtMost(n, cap) == IF n <= cap THEN n ELSE cap
AtLeast(n, floor) == IF n >= floor THEN n ELSE floor

\* The wait that the k-th failed login in a row costs at least.
LoginBackoff(k) == AtMost(RetryBase^k, AuthMaxDelay)

GateInit ==
    /\ busy = FALSE
    /\ age = 0
    /\ failures = 0
    /\ wait = 0

Begin ==
    /\ ~busy
    /\ wait = 0
    /\ age > MinReauthAge
    /\ busy' = TRUE
    /\ UNCHANGED <<age, failures, wait>>

Succeed ==
    /\ busy
    /\ busy' = FALSE
    /\ age' = 0
    /\ failures' = 0
    /\ wait' = 0

Fail ==
    /\ busy
    /\ busy' = FALSE
    /\ failures' = AtMost(failures + 1, MaxFailures)
    /\ wait' \in LoginBackoff(failures')..AuthMaxDelay
    /\ UNCHANGED age

\* The asking task is cancelled: the login is neither a success nor a failure.
Abandon ==
    /\ busy
    /\ busy' = FALSE
    /\ UNCHANGED <<age, failures, wait>>

Pass ==
    /\ age' = AtMost(age + 1, RenewInterval + 1)
    /\ wait' = AtLeast(wait - 1, 0)
    /\ UNCHANGED <<busy, failures>>

GateNext == Begin \/ Succeed \/ Fail \/ Abandon \/ Pass

GateSpec == GateInit /\ [][GateNext]_gateVars
=============================================================================
