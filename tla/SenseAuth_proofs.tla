--------------------------- MODULE SenseAuth_proofs ---------------------------
(***************************************************************************)
(* Theorems about SenseAuth, for any number of requesting tasks and any    *)
(* setting that AuthAssumption allows.                                     *)
(***************************************************************************)
EXTENDS SenseAuth, TLAPS

USE AuthAssumption DEF Callers

-----------------------------------------------------------------------------
(* The delays *)

\* A login's backoff is a natural number below the configured cap.
LEMMA LoginBackoffType ==
    ASSUME NEW k \in 0..MaxFailures
    PROVE  LoginBackoff(k) \in 0..AuthMaxDelay
  BY DEF LoginBackoff, AtMost

\* LoginDelay honours both the backoff and the cap of AUTH_RETRY_MAX_DELAY.
LEMMA LoginDelayBounds ==
    ASSUME NEW k \in 0..MaxFailures, NEW hint \in Nat
    PROVE  LoginDelay(k, hint) \in LoginBackoff(k)..AuthMaxDelay
  BY LoginBackoffType DEF LoginDelay, AtLeast, AtMost

\* The next failure count stays in the counted range.
LEMMA NextFailure ==
    ASSUME NEW k \in 0..MaxFailures
    PROVE  AtMost(k + 1, MaxFailures) \in 0..MaxFailures
  BY DEF AtMost

-----------------------------------------------------------------------------
(* Type correctness *)

\* Another attempt, or giving up, keeps the types of the caller's variables.
LEMMA AttemptType ==
    ASSUME TypeOK, NEW c \in Requests, NEW n \in Nat,
           NEW now \in [Callers -> BOOLEAN], Attempt(c, n, now)
    PROVE  /\ pc' \in [Callers -> Places]
           /\ retries' \in [Callers -> 0..MaxRetries]
           /\ issued' \in [Callers -> BOOLEAN]
<1>1. CASE n <= MaxRetries
  <2>1. c \in Callers /\ n \in 0..MaxRetries
    BY <1>1
  <2>2. pc' \in [Callers -> Places] /\ retries' \in [Callers -> 0..MaxRetries]
    BY <1>1, <2>1 DEF TypeOK, Attempt, Goto, Places
  <2>3. issued' \in [Callers -> BOOLEAN]
    BY <1>1, <2>1, Zenon DEF Attempt
  <2> QED BY <2>2, <2>3
<1>2. CASE ~(n <= MaxRetries)
  BY <1>2 DEF TypeOK, Attempt, Goto, Places
<1> QED BY <1>1, <1>2

\* So does the return from _renew.
LEMMA AfterRenewType ==
    ASSUME TypeOK, NEW c \in Callers, NEW now \in [Callers -> BOOLEAN],
           AfterRenew(c, now)
    PROVE  /\ pc' \in [Callers -> Places]
           /\ retries' \in [Callers -> 0..MaxRetries]
           /\ issued' \in [Callers -> BOOLEAN]
<1>1. CASE c \in Requests /\ reason[c] = "refused" /\ ~now[c]
  <2>1. Attempt(c, retries[c] + 1, now)
    BY <1>1 DEF AfterRenew
  <2>2. retries[c] + 1 \in Nat
    BY DEF TypeOK
  <2> QED BY <1>1, <2>1, <2>2, AttemptType
<1>2. CASE ~(c \in Requests /\ reason[c] = "refused" /\ ~now[c])
  BY <1>2 DEF AfterRenew, TypeOK, Goto, Places
<1> QED BY <1>1, <1>2

\* Every step of the callers, of time and of Sense keeps the types.
LEMMA TypeStep == TypeOK /\ [Next]_vars => TypeOK'
<1> SUFFICES ASSUME TypeOK, [Next]_vars PROVE TypeOK'
  OBVIOUS
<1>1. ASSUME NEW c \in Requests, RequestStep(c) PROVE TypeOK'
  <2>1. CASE StartRequest(c)
    BY <2>1 DEF StartRequest, TypeOK, Goto, Places, collector
  <2>2. CASE FirstAttempt(c)
    BY <2>2, AttemptType DEF FirstAttempt, TypeOK, collector
  <2>3. CASE Answered(c)
    BY <2>3 DEF Answered, TypeOK, Goto, Places, collector
  <2>4. CASE Refused(c)
    <3>1. CASE RefusalIsCurrent(c)
      BY <2>4, <3>1 DEF Refused, TypeOK, Goto, Places, collector
    <3>2. CASE ~RefusalIsCurrent(c)
      BY <2>4, <3>2, AttemptType DEF Refused, TypeOK, collector
    <3> QED BY <3>1, <3>2
  <2>5. CASE Throttled(c)
    <3>1. \A hint \in RetryAfters \cup {RequestBackoff(retries[c])} :
             ThrottleDelay(hint) \in Nat
      BY DEF TypeOK, RequestBackoff, ThrottleDelay, AtMost
    <3>2. sleep' \in [Callers -> Nat]
      BY <2>5, <3>1 DEF Throttled, TypeOK
    <3> QED BY <2>5, <3>2 DEF Throttled, TypeOK, Goto, Places, collector
  <2>6. CASE Failed(c)
    BY <2>6 DEF Failed, TypeOK, Goto, Places, collector, RequestBackoff
  <2>7. CASE ThrottleEnds(c)
    <3>1. CASE shutdown
      BY <2>7, <3>1 DEF ThrottleEnds, TypeOK, Goto, Places, collector
    <3>2. CASE ~shutdown
      <4>1. Attempt(c, retries[c] + 1, issued) /\ retries[c] + 1 \in Nat
        BY <2>7, <3>2 DEF ThrottleEnds, TypeOK
      <4> QED BY <2>7, <4>1, AttemptType DEF ThrottleEnds, TypeOK, collector
    <3> QED BY <3>1, <3>2
  <2>8. CASE BackoffEnds(c)
    BY <2>8, AttemptType DEF BackoffEnds, TypeOK, collector
  <2> QED BY <1>1, <2>1, <2>2, <2>3, <2>4, <2>5, <2>6, <2>7, <2>8 DEF RequestStep
<1>2. CASE FeedStep
  <2>1. CASE FeedRejected
    BY <2>1 DEF FeedRejected, TypeOK, Goto, Places, collector
  <2>2. CASE FeedWaitEnds
    BY <2>2 DEF FeedWaitEnds, TypeOK, Goto, Places, collector
  <2> QED BY <1>2, <2>1, <2>2 DEF FeedStep
<1>3. ASSUME NEW c \in Callers, RenewStep(c) PROVE TypeOK'
  <2>1. CASE RenewSkipped(c)
    BY <2>1, AfterRenewType DEF RenewSkipped, TypeOK, collector
  <2>2. CASE LoginStarts(c)
    BY <2>2 DEF LoginStarts, TypeOK, Goto, Places, collector
  <2>3. CASE LoginSucceeds(c)
    <3> DEFINE none == [r \in Callers |-> FALSE]
    <3>1. none \in [Callers -> BOOLEAN]
      OBVIOUS
    <3>2. AfterRenew(c, none) /\ refused' = none
      BY <2>3 DEF LoginSucceeds
    <3> HIDE DEF none
    <3>3. /\ pc' \in [Callers -> Places]
          /\ retries' \in [Callers -> 0..MaxRetries]
          /\ issued' \in [Callers -> BOOLEAN]
      BY <3>1, <3>2, AfterRenewType
    <3> QED BY <2>3, <3>1, <3>2, <3>3 DEF LoginSucceeds, TypeOK
  <2>4. CASE LoginFails(c)
    <3>1. authFailures' \in 0..MaxFailures
      BY <2>4, NextFailure DEF LoginFails, TypeOK
    <3>2. PICK hint \in RetryAfters \cup {0} :
             authRetryAt' = LoginDelay(authFailures', hint)
      BY <2>4 DEF LoginFails
    <3>3. authRetryAt' \in 0..AuthMaxDelay
      BY <3>1, <3>2, LoginDelayBounds, LoginBackoffType
    <3> QED BY <2>4, <3>1, <3>3, AfterRenewType DEF LoginFails, TypeOK
  <2> QED BY <1>3, <2>1, <2>2, <2>3, <2>4 DEF RenewStep
<1>4. ASSUME NEW c \in Callers, Cancelled(c) \/ Stops(c) PROVE TypeOK'
  BY <1>4 DEF Cancelled, Stops, TypeOK, Goto, Places, collector
<1>5. CASE ShutdownRequested
  BY <1>5 DEF ShutdownRequested, TypeOK, collector, caller
<1>6. CASE Tick
  BY <1>6 DEF Tick, TypeOK, AtMost, AtLeast
<1>7. CASE Revoke
  BY <1>7 DEF Revoke, TypeOK, collector, caller
<1>8. CASE UNCHANGED vars
  BY <1>8 DEF TypeOK, vars
<1> QED BY <1>1, <1>2, <1>3, <1>4, <1>5, <1>6, <1>7, <1>8 DEF Next

\* The variables keep their types: the token's age and the login's wait stay
\* in the ranges that the settings give them, however many logins fail.
THEOREM TypeCorrect == Spec => []TypeOK
<1>1. Init => TypeOK
  <2> SUFFICES ASSUME Init PROVE TypeOK
    OBVIOUS
  <2>1. /\ tokenAge \in 0..(RenewInterval + 1)
        /\ authFailures \in 0..MaxFailures
        /\ authRetryAt \in 0..AuthMaxDelay
        /\ retries \in [Callers -> 0..MaxRetries]
    BY DEF Init
  <2>2. /\ pc \in [Callers -> Places]
        /\ reason \in [Callers -> {"due", "refused"}]
        /\ issued \in [Callers -> BOOLEAN]
        /\ sleep \in [Callers -> Nat]
        /\ refused \in [Callers -> BOOLEAN]
    BY DEF Init, Places
  <2> QED BY <2>1, <2>2 DEF Init, TypeOK
<1> QED BY <1>1, TypeStep, PTL DEF Spec

-----------------------------------------------------------------------------
(* Where a step sends its caller *)

\* The retry loop of make_api_request either sends again or gives up.
LEMMA AttemptPlace ==
    ASSUME NEW c, NEW n, NEW now, Attempt(c, n, now)
    PROVE  \E p \in {"sent", "idle"} : Goto(c, p)
  BY DEF Attempt

\* The caller of _renew goes on with its request or ends it.
LEMMA AfterRenewPlace ==
    ASSUME NEW c, NEW now, AfterRenew(c, now)
    PROVE  \E p \in {"sent", "idle", "ready"} : Goto(c, p)
  BY AttemptPlace DEF AfterRenew

\* No step of a request but the renewal itself leads to or from a login.
LEMMA RequestPlace ==
    ASSUME NEW c \in Requests, RequestStep(c)
    PROVE  /\ pc[c] # "login"
           /\ \E p \in Places \ {"login"} : Goto(c, p)
           /\ authRetryAt' = authRetryAt /\ authLock' = authLock
  BY AttemptPlace DEF RequestStep, StartRequest, FirstAttempt, Answered, Refused,
     Throttled, ThrottleEnds, Failed, BackoffEnds, Places, collector

\* Neither does a step of refresh_ws_url before it enters _renew.
LEMMA FeedPlace ==
    ASSUME FeedStep
    PROVE  /\ pc[Feed] # "login"
           /\ \E p \in Places \ {"login"} : Goto(Feed, p)
           /\ authRetryAt' = authRetryAt /\ authLock' = authLock
  BY DEF FeedStep, FeedRejected, FeedWaitEnds, Places, collector

-----------------------------------------------------------------------------
(* Mutual exclusion *)

\* _auth_lock is held exactly while a login runs, by the caller that runs it;
\* and the wait after a failed login is over by then.
LockInv ==
    /\ \A c \in Callers : pc[c] = "login" <=> authLock = c
    /\ authLock # Nobody => authRetryAt = 0

\* Every step keeps it: only LoginStarts takes the lock, and only the holder's
\* login, ended or cancelled, gives it back.
LEMMA LockStep == TypeOK /\ LockInv /\ [Next]_vars => LockInv'
<1> SUFFICES ASSUME TypeOK, LockInv, [Next]_vars PROVE LockInv'
  OBVIOUS
<1> USE DEF LockInv
<1>1. ASSUME NEW c \in Requests, RequestStep(c) PROVE LockInv'
  BY <1>1, RequestPlace DEF Goto, TypeOK
<1>2. CASE FeedStep
  BY <1>2, FeedPlace DEF Goto, TypeOK
<1>3. ASSUME NEW c \in Callers, RenewStep(c) PROVE LockInv'
  <2>1. CASE RenewSkipped(c)
    BY <2>1, AfterRenewPlace DEF RenewSkipped, Goto, TypeOK, collector
  <2>2. CASE LoginStarts(c)
    BY <2>2 DEF LoginStarts, BackingOff, Goto, TypeOK, collector
  <2>3. CASE LoginSucceeds(c)
    BY <2>3, AfterRenewPlace DEF LoginSucceeds, Goto, TypeOK
  <2>4. CASE LoginFails(c)
    BY <2>4, AfterRenewPlace DEF LoginFails, Goto, TypeOK
  <2> QED BY <1>3, <2>1, <2>2, <2>3, <2>4 DEF RenewStep
<1>4. ASSUME NEW c \in Callers, Cancelled(c) PROVE LockInv'
  BY <1>4 DEF Cancelled, Goto, TypeOK, collector
<1>5. ASSUME NEW c \in Callers, Stops(c) PROVE LockInv'
  BY <1>5 DEF Stops, Goto, TypeOK, collector
<1>6. CASE ShutdownRequested \/ Revoke \/ UNCHANGED vars
  BY <1>6 DEF ShutdownRequested, Revoke, vars, collector, caller
<1>7. CASE Tick
  BY <1>7 DEF Tick, TypeOK, AtLeast
<1> QED BY <1>1, <1>2, <1>3, <1>4, <1>5, <1>6, <1>7 DEF Next

\* So it holds in every reachable state, with the types it needs.
LEMMA LockInvariant == Spec => [](TypeOK /\ LockInv)
<1>1. Init => LockInv
  BY DEF Init, LockInv
<1> QED BY <1>1, LockStep, TypeStep, TypeCorrect, PTL DEF Spec

\* Password logins are single-flight, and none runs while a failed one still
\* backs off: _renew of client.py, whatever the callers and the timing.
THEOREM Exclusive == Spec => []LoginsAreExclusive
<1>1. TypeOK /\ LockInv => LoginsAreExclusive
  BY DEF LockInv, LoginsAreExclusive
<1> QED BY <1>1, LockInvariant, PTL

-----------------------------------------------------------------------------
(* No request is repeated with a token it knows to be refused *)

\* A request that has seen the present token refused is in _renew, on account
\* of that refusal, and its last attempt carried the present token.
RefusalInv ==
    \A c \in Requests : refused[c] =>
        /\ pc[c] \in {"idle", "renew", "login", "stopped"}
        /\ pc[c] \in {"renew", "login"} => issued[c] /\ reason[c] = "refused"

\* Every step keeps it: a login that succeeds clears every refusal, and other
\* steps touch the place and the token of their own caller only.
LEMMA RefusalStep == TypeOK /\ RefusalInv /\ [Next]_vars => RefusalInv'
<1> SUFFICES ASSUME TypeOK, RefusalInv, [Next]_vars PROVE RefusalInv'
  OBVIOUS
<1> USE DEF RefusalInv
<1>1. ASSUME NEW c \in Requests, RequestStep(c) PROVE RefusalInv'
  <2>1. CASE StartRequest(c)
    BY <2>1 DEF StartRequest, Goto, TypeOK
  <2>2. CASE FirstAttempt(c)
    BY <2>2 DEF FirstAttempt, Attempt, Goto, TypeOK
  <2>3. CASE Answered(c)
    BY <2>3 DEF Answered, Goto, TypeOK
  <2>4. CASE Refused(c)
    BY <2>4 DEF Refused, RefusalIsCurrent, Attempt, Goto, TypeOK
  <2>5. CASE Throttled(c)
    BY <2>5 DEF Throttled, Goto, TypeOK
  <2>6. CASE Failed(c)
    BY <2>6 DEF Failed, Goto, TypeOK
  <2>7. CASE ThrottleEnds(c)
    BY <2>7 DEF ThrottleEnds, Attempt, Goto, TypeOK
  <2>8. CASE BackoffEnds(c)
    BY <2>8 DEF BackoffEnds, Attempt, Goto, TypeOK
  <2> QED BY <1>1, <2>1, <2>2, <2>3, <2>4, <2>5, <2>6, <2>7, <2>8 DEF RequestStep
<1>2. CASE FeedStep
  BY <1>2 DEF FeedStep, FeedRejected, FeedWaitEnds, Goto, TypeOK
<1>3. ASSUME NEW c \in Callers, RenewStep(c) PROVE RefusalInv'
  <2>1. CASE RenewSkipped(c)
    BY <2>1 DEF RenewSkipped, AfterRenew, Attempt, Goto, TypeOK
  <2>2. CASE LoginStarts(c)
    BY <2>2 DEF LoginStarts, Goto, TypeOK
  <2>3. CASE LoginSucceeds(c)
    BY <2>3 DEF LoginSucceeds
  <2>4. CASE LoginFails(c)
    BY <2>4 DEF LoginFails, AfterRenew, Attempt, Goto, TypeOK
  <2> QED BY <1>3, <2>1, <2>2, <2>3, <2>4 DEF RenewStep
<1>4. ASSUME NEW c \in Callers, Cancelled(c) \/ Stops(c) PROVE RefusalInv'
  BY <1>4 DEF Cancelled, Stops, Goto, TypeOK
<1>5. CASE ShutdownRequested \/ Revoke \/ Tick \/ UNCHANGED vars
  BY <1>5 DEF ShutdownRequested, Revoke, Tick, vars, caller
<1> QED BY <1>1, <1>2, <1>3, <1>4, <1>5 DEF Next

\* make_api_request never answers a 401 by sending the same token again: it
\* waits for a newer one or gives the request up.
THEOREM NoResend == Spec => []NoResendOfRefusedToken
<1>1. Init => RefusalInv
  BY DEF Init, RefusalInv
<1>2. RefusalInv => NoResendOfRefusedToken
  BY DEF RefusalInv, NoResendOfRefusedToken
<1> QED BY <1>1, <1>2, RefusalStep, TypeStep, TypeCorrect, PTL DEF Spec

-----------------------------------------------------------------------------
(* SenseAuth implements LoginGate *)

\* While a login runs, the lock tells who runs it, so that a step of another
\* caller neither begins nor ends one.
LEMMA GateStep ==
    TypeOK /\ LockInv /\ [Next]_vars => [Gate!GateNext]_(Gate!gateVars)
<1> DEFINE busy == \E c \in Callers : pc[c] = "login"
<1> SUFFICES ASSUME TypeOK, LockInv, [Next]_vars
             PROVE  Gate!GateNext \/ UNCHANGED Gate!gateVars
  OBVIOUS
<1> USE DEF Gate!gateVars
<1>0. busy <=> authLock # Nobody
  BY DEF LockInv, TypeOK
<1>1. busy' <=> authLock' # Nobody
  BY LockStep, TypeStep DEF LockInv, TypeOK
<1> HIDE DEF busy
<1>2. ASSUME NEW c \in Requests, RequestStep(c) PROVE UNCHANGED Gate!gateVars
  <2>1. UNCHANGED <<tokenAge, authFailures, authRetryAt, authLock>>
    BY <1>2 DEF RequestStep, StartRequest, FirstAttempt, Answered, Refused,
       Throttled, ThrottleEnds, Failed, BackoffEnds, collector
  <2> QED BY <2>1, <1>0, <1>1 DEF busy
<1>3. CASE FeedStep
  <2>1. UNCHANGED <<tokenAge, authFailures, authRetryAt, authLock>>
    BY <1>3 DEF FeedStep, FeedRejected, FeedWaitEnds, collector
  <2> QED BY <2>1, <1>0, <1>1 DEF busy
<1>4. ASSUME NEW c \in Callers, RenewSkipped(c) PROVE UNCHANGED Gate!gateVars
  <2>1. UNCHANGED <<tokenAge, authFailures, authRetryAt, authLock>>
    BY <1>4 DEF RenewSkipped, collector
  <2> QED BY <2>1, <1>0, <1>1 DEF busy
<1>5. ASSUME NEW c \in Callers, LoginStarts(c) PROVE Gate!Begin
  <2>1. ~busy /\ busy'
    BY <1>5, <1>0, <1>1 DEF LoginStarts
  <2>2. MinAge(c) >= MinReauthAge
    BY DEF MinAge
  <2>3. authRetryAt = 0 /\ tokenAge > MinReauthAge
    BY <1>5, <2>2 DEF LoginStarts, BackingOff, TypeOK, MinAge
  <2> QED BY <1>5, <2>1, <2>3 DEF LoginStarts, collector, Gate!Begin, busy
<1>6. ASSUME NEW c \in Callers, LoginSucceeds(c) PROVE Gate!Succeed
  <2>1. busy /\ ~busy'
    BY <1>6, <1>0, <1>1 DEF LoginSucceeds, LockInv
  <2> QED BY <1>6, <2>1 DEF LoginSucceeds, Gate!Succeed, busy
<1>7. ASSUME NEW c \in Callers, LoginFails(c) PROVE Gate!Fail
  <2>1. busy /\ ~busy'
    BY <1>7, <1>0, <1>1 DEF LoginFails, LockInv
  <2>2. authFailures' \in 0..MaxFailures
    BY <1>7, NextFailure DEF LoginFails, TypeOK
  <2>3. PICK hint \in RetryAfters \cup {0} :
           authRetryAt' = LoginDelay(authFailures', hint)
    BY <1>7 DEF LoginFails
  <2>4. authRetryAt' \in LoginBackoff(authFailures')..AuthMaxDelay
    BY <2>2, <2>3, LoginDelayBounds
  <2> QED BY <1>7, <2>1, <2>4 DEF LoginFails, Gate!Fail, Gate!LoginBackoff,
             LoginBackoff, Gate!AtMost, AtMost, busy
<1>8. ASSUME NEW c \in Callers, Cancelled(c)
      PROVE  Gate!Abandon \/ UNCHANGED Gate!gateVars
  <2>1. UNCHANGED <<tokenAge, authFailures, authRetryAt>>
    BY <1>8 DEF Cancelled, collector
  <2>2. CASE authLock = c
    BY <1>8, <2>1, <2>2, <1>0, <1>1 DEF Cancelled, Gate!Abandon, busy
  <2>3. CASE authLock # c
    BY <1>8, <2>1, <2>3, <1>0, <1>1 DEF Cancelled, busy
  <2> QED BY <2>2, <2>3
<1>9. ASSUME NEW c \in Callers, Stops(c) PROVE UNCHANGED Gate!gateVars
  <2>1. UNCHANGED <<tokenAge, authFailures, authRetryAt, authLock>>
    BY <1>9 DEF Stops, collector
  <2> QED BY <2>1, <1>0, <1>1 DEF busy
<1>10. ASSUME Tick PROVE Gate!Pass
  <2>1. UNCHANGED <<\E c \in Callers : pc[c] = "login", authFailures>>
    BY <1>10 DEF Tick
  <2>2. /\ tokenAge' = Gate!AtMost(tokenAge + 1, RenewInterval + 1)
        /\ authRetryAt' = Gate!AtLeast(authRetryAt - 1, 0)
    BY <1>10 DEF Tick, Gate!AtMost, Gate!AtLeast, AtMost, AtLeast
  <2> QED BY <2>1, <2>2 DEF Gate!Pass
<1>11. CASE ShutdownRequested \/ Revoke \/ UNCHANGED vars
  <2>1. UNCHANGED <<tokenAge, authFailures, authRetryAt, authLock>>
    BY <1>11 DEF ShutdownRequested, Revoke, vars, collector, caller
  <2> QED BY <2>1, <1>0, <1>1 DEF busy
<1> QED BY <1>2, <1>3, <1>4, <1>5, <1>6, <1>7, <1>8, <1>9, <1>10, <1>11
        DEF Next, RenewStep, Gate!GateNext

\* Every behaviour of the callers is one of the gate: logins are one at a
\* time, paced after failures, and spare a token younger than MinReauthAge.
THEOREM Refinement == Spec => ImplementsLoginGate
<1>1. Init => Gate!GateInit
  BY DEF Init, Gate!GateInit
<1> QED BY <1>1, GateStep, LockInvariant, PTL
        DEF Spec, ImplementsLoginGate, Gate!GateSpec
=============================================================================
