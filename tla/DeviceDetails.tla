---------------------------- MODULE DeviceDetails ----------------------------
(***************************************************************************)
(* The device cache in the hands of the API workers: a device that an      *)
(* event was about is looked up, fetched if it is not cached, written to   *)
(* InfluxDB by persist_device_data (app/storage/influxdb.py) and cached    *)
(* if that has dealt with it.  Several workers may do this for one device  *)
(* at a time; every write and fetch lets the others run.                   *)
(***************************************************************************)
EXTENDS DeviceCache

CONSTANT Workers    \* the tasks that run api_worker

VARIABLES
    stage,      \* where each worker awaits
    hand,       \* the device it is about, the kind of detail it has fetched, and
                \* whether InfluxDB took the detail point
    fate        \* history: of each cached detail, "written" or its kind

detailVars == <<vars, stage, hand, fate>>

(***************************************************************************)
(* Details as the code tells them apart.  "compared": of the always-on     *)
(* device, with a comparison, a second point.  "unwritable": a value that  *)
(* line protocol cannot carry.  "useless": no id, or an exception of       *)
(* MALFORMED_PAYLOAD before the point is written.  "no_list": of the       *)
(* always-on device, with null for the list of its devices, which raises   *)
(* such an exception after it.  "odd": another exception.                  *)
(***************************************************************************)
Payloads == {"ordinary", "compared", "unwritable", "useless", "no_list", "odd"}

Empty == [device |-> "none", kind |-> "none", written |-> FALSE]

DetailsInit ==
    /\ Init
    /\ stage = [w \in Workers |-> "idle"]
    /\ hand = [w \in Workers |-> Empty]
    /\ fate = <<>>

Moves(w, s) == stage' = [stage EXCEPT ![w] = s]

\* The fates of the details that are still cached.
FatesKept == fate' = Restrict(fate, DOMAIN cache')

-----------------------------------------------------------------------------
(* api_worker and fetch_device_data *)

TakesCached(w, d) ==
    /\ stage[w] = "idle"
    /\ Hit(d)
    /\ UNCHANGED <<stage, hand, fate>>

TakesUncached(w, d) ==
    /\ stage[w] = "idle"
    /\ \/ MissExpired(d)
       \/ d \notin Keys /\ UNCHANGED vars
    /\ FatesKept
    /\ Moves(w, "fetching")
    /\ hand' = [hand EXCEPT ![w].device = d]

\* make_api_request gave up, or the answer is no object.
FetchFails(w) ==
    /\ stage[w] = "fetching"
    /\ Moves(w, "idle")
    /\ hand' = [hand EXCEPT ![w] = Empty]
    /\ UNCHANGED <<vars, fate>>

Fetched(w, kind) ==
    /\ stage[w] = "fetching"
    /\ Moves(w, "releasing")
    /\ hand' = [hand EXCEPT ![w].kind = kind]
    /\ UNCHANGED <<vars, fate>>

-----------------------------------------------------------------------------
(* persist_device_data, and what its result means *)

\* The detail point was written, or an exception of MALFORMED_PAYLOAD came up.
DealtWith(kind, ok) == ok \/ kind \in {"useless", "no_list"}

\* Cached, a detail is not written again; not cached, the next event fetches the device
\* again.
PersistEnds(w, wrote, ok) ==
    /\ Moves(w, "idle")
    /\ hand' = [hand EXCEPT ![w] = Empty]
    /\ LET d == hand[w].device
           kind == hand[w].kind
       IN  IF DealtWith(kind, ok)
           THEN /\ Put(d)
                /\ fate' = [e \in DOMAIN cache' |->
                              IF e # d THEN fate[e] ELSE IF wrote THEN "written" ELSE kind]
           ELSE UNCHANGED <<vars, fate>>

\* The lock of the parked events was free, and those of this device are written: the
\* point follows, if there can be one.
EventsReleased(w) ==
    /\ stage[w] = "releasing"
    /\ IF hand[w].kind \in {"useless", "unwritable"} THEN PersistEnds(w, FALSE, FALSE)
       ELSE /\ Moves(w, IF hand[w].kind = "odd" THEN "pausing" ELSE "writing")
            /\ UNCHANGED <<vars, hand, fate>>

DetailWritten(w) ==
    /\ stage[w] = "writing"
    /\ hand[w].kind # "compared"
    /\ \E ok \in BOOLEAN : PersistEnds(w, ok, ok)

\* A comparison follows, whether the point was written or not.
ComparisonFollows(w) ==
    /\ stage[w] = "writing"
    /\ hand[w].kind = "compared"
    /\ Moves(w, "comparing")
    /\ \E ok \in BOOLEAN : hand' = [hand EXCEPT ![w].written = ok]
    /\ UNCHANGED <<vars, fate>>

\* Faulty: the last write decides.
ResultLast(detail, comparison) == comparison

\* The write of the detail point decides.
Result(detail, comparison) == detail

ComparisonWritten(w) ==
    /\ stage[w] = "comparing"
    /\ \E ok \in BOOLEAN : PersistEnds(w, hand[w].written, Result(hand[w].written, ok))

\* API_WORKER_ERROR_SLEEP
PauseEnds(w) ==
    /\ stage[w] = "pausing"
    /\ Moves(w, "idle")
    /\ hand' = [hand EXCEPT ![w] = Empty]
    /\ UNCHANGED <<vars, fate>>

-----------------------------------------------------------------------------
(* Shutdown and time *)

\* A stop signal, or a cancellation wherever the worker awaits.
WorkerEnds(w) ==
    /\ stage[w] # "ended"
    /\ Moves(w, "ended")
    /\ hand' = [hand EXCEPT ![w] = Empty]
    /\ UNCHANGED <<vars, fate>>

\* shutdown() clears the cache once the workers have ended.
Cleared ==
    /\ \A w \in Workers : stage[w] = "ended"
    /\ Clear
    /\ FatesKept
    /\ UNCHANGED <<stage, hand>>

Time == Tick /\ UNCHANGED <<stage, hand, fate>>

WorkerStep(w) ==
    \/ \E d \in Devices : TakesCached(w, d) \/ TakesUncached(w, d)
    \/ FetchFails(w) \/ \E kind \in Payloads : Fetched(w, kind)
    \/ EventsReleased(w) \/ DetailWritten(w)
    \/ ComparisonFollows(w) \/ ComparisonWritten(w)
    \/ PauseEnds(w) \/ WorkerEnds(w)

DetailsNext == (\E w \in Workers : WorkerStep(w)) \/ Cleared \/ Time

DetailsSpec == DetailsInit /\ [][DetailsNext]_detailVars

-----------------------------------------------------------------------------
(* Properties *)

\* "Cached only once InfluxDB has it" (fetch_device_data): whatever the writes of several
\* workers for one device came to, a hit stands for a detail that was written, or that
\* cannot be.  The one exception is an always-on detail with null for its devices: the
\* exception that this raises after the write hides that the write has failed.
CachedMeansDealtWith ==
    \A d \in Keys : fate[d] \in {"written", "useless", "no_list"}
=============================================================================
