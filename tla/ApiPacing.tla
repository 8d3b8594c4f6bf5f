------------------------------ MODULE ApiPacing ------------------------------
(***************************************************************************)
(* The rate limiting at the head of make_api_request (client.py): a        *)
(* semaphore for Concurrent requests, and the minimum interval, which a    *)
(* request reads, sleeps out and sets in steps of its own.  The retry loop *)
(* that follows is modelled in SenseAuth; here it is a request that is     *)
(* "calling", may send again, and holds its place until it returns.  The   *)
(* wall clock runs evenly.                                                 *)
(***************************************************************************)
EXTENDS Integers, FiniteSets

CONSTANTS
    Requests,     \* the tasks that make REST requests
    Concurrent,   \* config.API_RATE_LIMIT_CONCURRENT
    MinInterval   \* config.API_MIN_INTERVAL

ASSUME PacingAssumption ==
    /\ IsFiniteSet(Requests)
    /\ Concurrent \in Nat \ {0} /\ MinInterval \in Nat \ {0}

VARIABLES
    pc,         \* where each request is
    sleep,      \* time left of its pacing sleep
    sinceCall,  \* time since last_api_call_time, up to MinInterval
    sinceSent   \* history: time since each request first sent, up to MinInterval

vars == <<pc, sleep, sinceCall, sinceSent>>

Holding == {r \in Requests : pc[r] \in {"pacing", "calling"}}

\* The requests first sent within the last MinInterval.
Recent == {r \in Requests : sinceSent[r] < MinInterval}

Init ==
    /\ pc = [r \in Requests |-> "idle"]
    /\ sleep = [r \in Requests |-> 0]
    /\ sinceCall = MinInterval
    /\ sinceSent = [r \in Requests |-> MinInterval]

\* Faulty: the slot of a request that is only pacing is not counted.
FreeSlotMiscounted ==
    Cardinality({r \in Requests : pc[r] = "calling"}) < Concurrent

FreeSlot == Cardinality(Holding) < Concurrent

\* How long a request that now reads last_api_call_time sleeps.
PaceTime == MinInterval - sinceCall

\* The request goes out, and last_api_call_time is set.
Send(r) ==
    /\ pc' = [pc EXCEPT ![r] = "calling"]
    /\ sinceCall' = 0
    /\ sinceSent' = [sinceSent EXCEPT ![r] = 0]
    /\ UNCHANGED sleep

\* The semaphore is won and last_api_call_time is read.  The interval has passed:
\* the request goes out in the same step.
AcquireAndCall(r) ==
    /\ pc[r] = "idle"
    /\ FreeSlot
    /\ PaceTime = 0
    /\ Send(r)

\* It has not: the request sleeps out what is left of it.
AcquireAndPace(r) ==
    /\ pc[r] = "idle"
    /\ FreeSlot
    /\ PaceTime > 0
    /\ pc' = [pc EXCEPT ![r] = "pacing"]
    /\ sleep' = [sleep EXCEPT ![r] = PaceTime]
    /\ UNCHANGED <<sinceCall, sinceSent>>

\* The sleep is over; last_api_call_time is not read again.
FirstCall(r) ==
    /\ pc[r] = "pacing"
    /\ sleep[r] = 0
    /\ Send(r)

\* The request returns, after its retries, and gives up its slot.
Release(r) ==
    /\ pc[r] = "calling"
    /\ pc' = [pc EXCEPT ![r] = "idle"]
    /\ UNCHANGED <<sleep, sinceCall, sinceSent>>

Tick ==
    /\ sinceCall' = IF sinceCall < MinInterval THEN sinceCall + 1 ELSE sinceCall
    /\ sinceSent' = [r \in Requests |->
          IF sinceSent[r] < MinInterval THEN sinceSent[r] + 1 ELSE sinceSent[r]]
    /\ sleep' = [r \in Requests |-> IF sleep[r] > 0 THEN sleep[r] - 1 ELSE 0]
    /\ UNCHANGED pc

Next ==
    \/ \E r \in Requests :
          AcquireAndCall(r) \/ AcquireAndPace(r) \/ FirstCall(r) \/ Release(r)
    \/ Tick

Spec == Init /\ [][Next]_vars

-----------------------------------------------------------------------------
(* Properties *)

\* What the interval and the semaphore achieve together: in any MinInterval,
\* no more requests are first sent than the semaphore admits.
BurstIsBounded == Cardinality(Recent) <= Concurrent

\* What docs/CONFIGURATION.md and the comment in make_api_request say of
\* API_MIN_INTERVAL: no two requests are first sent closer than that.
CallsAreSpaced == Cardinality(Recent) <= 1
=============================================================================
