------------------------------ MODULE Heartbeat ------------------------------
(***************************************************************************)
(* The heartbeat file: how often the collector touches it (client.py),     *)
(* how the Docker health check judges its age (health/check.py), and the   *)
(* two settings that must fit together (health/heartbeat.py, config.py).   *)
(* Ages are wall-clock ages, and the clock may be stepped; `heard` runs on *)
(* real time.  Ages beyond Stale look alike: they stand for a file that is *)
(* missing and a heartbeat never written, too.                             *)
(***************************************************************************)
EXTENDS Integers

CONSTANTS
    Garbage,          \* a setting that is not a whole number
    RawMaxAges,       \* what SENSE_COLLECTOR_HEALTH_CHECK_MAX_AGE may hold
    RawIntervals,     \* what SENSE_COLLECTOR_HEALTH_HEARTBEAT_INTERVAL may hold
    MaxAgeLow,        \* MAX_AGE_BOUNDS of health/heartbeat.py
    MaxAgeHigh,
    DefaultMaxAge,    \* DEFAULT_MAX_AGE
    DefaultInterval,  \* the default of config.HEALTH_HEARTBEAT_INTERVAL
    IntervalCap,      \* its upper bound, whatever the max age
    MaxStep           \* bound: how far the wall clock is stepped between two touches

ASSUME HeartbeatAssumption ==
    /\ RawMaxAges \subseteq Int \cup {Garbage}
    /\ RawIntervals \subseteq Int \cup {Garbage}
    /\ MaxAgeLow \in Nat /\ MaxAgeHigh \in Nat /\ 2 <= MaxAgeLow /\ MaxAgeLow <= MaxAgeHigh
    /\ DefaultMaxAge \in MaxAgeLow..MaxAgeHigh
    /\ DefaultInterval \in Nat \ {0} /\ IntervalCap \in Nat \ {0}
    /\ MaxStep \in Nat

VARIABLES
    maxAge,    \* MAX_AGE_SECONDS = config.HEALTH_CHECK_MAX_AGE
    interval,  \* config.HEALTH_HEARTBEAT_INTERVAL
    garbled,   \* the interval was given, but not as a whole number
    fileAge,   \* age of the file by the clock
    beatAge,   \* time since _last_heartbeat by the clock
    failed,    \* history: the latest touch raised
    stepped,   \* history: how far the clock was stepped since the file was touched
    heard      \* history: time since a usable reading was received

settings == <<maxAge, interval, garbled>>
ages == <<fileAge, beatAge, heard>>
heartbeat == <<fileAge, beatAge, failed, stepped>>

AtMost(n, cap) == IF n <= cap THEN n ELSE cap
AtLeast(n, floor) == IF n >= floor THEN n ELSE floor

\* An age that is stale even after the clock is set back.
Stale == MaxAgeHigh + MaxStep + 1

-----------------------------------------------------------------------------
(* Settings *)

Clamped(n, low, high) == AtMost(AtLeast(n, low), high)

\* health_check_max_age: what is no whole number counts as unset.
MaxAgeOf(raw) ==
    IF raw = Garbage THEN DefaultMaxAge ELSE Clamped(raw, MaxAgeLow, MaxAgeHigh)

\* Faulty: the bound does not leave a touch in every window.
IntervalLimitOneWindow(age) == AtMost(AtLeast(age, 1), IntervalCap)

\* Half the window: one touch in it may come late.
IntervalLimit(age) == AtMost(AtLeast(age \div 2, 1), IntervalCap)

\* validate_int: a number is clamped, and anything else falls back to the default
\* without being clamped.
IntervalOf(raw, age) ==
    IF raw = Garbage THEN DefaultInterval ELSE Clamped(raw, 1, IntervalLimit(age))

HeartbeatInit ==
    /\ maxAge \in {MaxAgeOf(raw) : raw \in RawMaxAges}
    /\ \E raw \in RawIntervals :
          /\ interval = IntervalOf(raw, maxAge)
          /\ garbled = (raw = Garbage)
    /\ fileAge = Stale /\ beatAge = Stale /\ heard = Stale
    /\ failed = FALSE
    /\ stepped = 0

-----------------------------------------------------------------------------
(* The collector, the clock and the health check *)

\* _touch_heartbeat: throttled, and noted before the touch that may fail.
TouchHeartbeat ==
    IF beatAge < interval
    THEN UNCHANGED heartbeat
    ELSE /\ beatAge' = 0
         /\ \/ /\ fileAge' = 0
               /\ failed' = FALSE
               /\ stepped' = 0
            \/ /\ failed' = TRUE
               /\ UNCHANGED <<fileAge, stepped>>

\* The process ends and is started again; the file stays.
ProcessRestarts ==
    /\ beatAge' = Stale
    /\ UNCHANGED <<settings, fileAge, failed, stepped, heard>>

TimePasses ==
    /\ fileAge' = AtMost(fileAge + 1, Stale)
    /\ beatAge' = AtMost(beatAge + 1, Stale)
    /\ heard' = AtMost(heard + 1, Stale)
    /\ UNCHANGED <<settings, failed, stepped>>

\* NTP or an operator sets the clock: at most once between two touches.
ClockStepped ==
    /\ stepped = 0
    /\ \E step \in {-MaxStep, MaxStep} :
          /\ stepped' = step
          /\ fileAge' = AtMost(fileAge + step, Stale)
          /\ beatAge' = AtMost(beatAge + step, Stale)
    /\ UNCHANGED <<settings, failed, heard>>


\* check_heartbeat of the health check process.
Healthy == fileAge <= maxAge
=============================================================================
