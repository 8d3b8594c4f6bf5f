----------------------------- MODULE DeviceCache -----------------------------
(***************************************************************************)
(* class DeviceCache of app/collector/client.py: device details by device  *)
(* id, with a time to live and a size limit.  The dict `cache` and the     *)
(* deque `access_order` must agree: `remove` and `popleft` raise if they   *)
(* do not, and a deque with maxlen drops its oldest entry without a word.  *)
(* No operation awaits while it holds the lock, so each is one step.       *)
(***************************************************************************)
EXTENDS Integers, Sequences, FiniteSets, SequencesExt

CONSTANTS
    Devices,    \* device ids
    MaxSize,    \* config.DEVICE_CACHE_MAX_SIZE
    Ttl         \* config.DEVICE_CACHE_EXPIRY_SECONDS

ASSUME CacheAssumption == MaxSize \in Nat \ {0} /\ Ttl \in Nat \ {0}

VARIABLES
    cache,          \* the age of each cached detail, up to Ttl
    accessOrder,    \* access_order
    used            \* history: the devices ever used, least recently used first

vars == <<cache, accessOrder, used>>

Keys == DOMAIN cache

\* The members of K in the order of s: SelectSeq, as a function that can be
\* reasoned about.
Only(s, K) ==
    LET kept[i \in 0..Len(s)] ==
          IF i = 0 THEN <<>>
          ELSE IF s[i] \in K THEN Append(kept[i - 1], s[i]) ELSE kept[i - 1]
    IN  kept[Len(s)]

\* d becomes the device used last.
UsedNow(d) == used' = Append(Only(used, Devices \ {d}), d)

\* Faulty: an entry that is used again keeps its old place too.
AccessedTwice(s, d) == Append(s, d)

\* `remove` and `append`: d becomes the most recently used.
Accessed(s, d) == Append(RemoveFirst(s, d), d)

\* append to a deque with maxlen.
Appended(s, d) == Append(IF Len(s) = MaxSize THEN Tail(s) ELSE s, d)

Init ==
    /\ cache = <<>>
    /\ accessOrder = <<>>
    /\ used = <<>>

Hit(d) ==
    /\ d \in Keys
    /\ cache[d] < Ttl
    /\ accessOrder' = Accessed(accessOrder, d)
    /\ UsedNow(d)
    /\ UNCHANGED cache

\* An expired entry is forgotten by the get that finds it.
MissExpired(d) ==
    /\ d \in Keys
    /\ cache[d] >= Ttl
    /\ cache' = Restrict(cache, Keys \ {d})
    /\ accessOrder' = RemoveFirst(accessOrder, d)
    /\ UNCHANGED used

\* Faulty: the newest entry makes room.
VictimNewest == Last(accessOrder)

\* The entry that makes room for another.
Victim == Head(accessOrder)

\* Faulty: a device that is cached already needs no place, and nothing is
\* moved in access_order for it.
OrderAfterPutStale(s, d) == IF Contains(s, d) THEN s ELSE Appended(s, d)

OrderAfterPut(s, d) == Appended(RemoveFirst(s, d), d)

Put(d) ==
    LET evicted == IF Cardinality(Keys) >= MaxSize /\ d \notin Keys THEN {Victim} ELSE {}
        order == Only(accessOrder, Devices \ evicted)
    IN  /\ cache' = [e \in (Keys \ evicted) \cup {d} |-> IF e = d THEN 0 ELSE cache[e]]
        /\ accessOrder' = OrderAfterPut(order, d)
        /\ UsedNow(d)

Clear ==
    /\ cache' = <<>>
    /\ accessOrder' = <<>>
    /\ UNCHANGED used

Tick ==
    /\ \E d \in Keys : cache[d] < Ttl
    /\ cache' = [d \in Keys |-> IF cache[d] < Ttl THEN cache[d] + 1 ELSE Ttl]
    /\ UNCHANGED <<accessOrder, used>>

Next ==
    \/ \E d \in Devices : Hit(d) \/ MissExpired(d) \/ Put(d)
    \/ Clear
    \/ Tick

Spec == Init /\ [][Next]_vars

-----------------------------------------------------------------------------
(* Properties *)

\* dict and deque hold the same devices, each once, and at most MaxSize of
\* them: no operation raises, and maxlen never drops an entry behind the
\* dict's back.
OrderMatchesCache ==
    /\ ToSet(accessOrder) = Keys
    /\ IsInjective(accessOrder)
    /\ Cardinality(Keys) <= MaxSize

\* The deque is in the order of last use, so that what is evicted is what was
\* not needed for longest, whatever expired or was evicted in between.
OrderIsLeastRecentFirst == accessOrder = Only(used, Keys)

\* A detail that is still good leaves the cache only when all is cleared, or to
\* make room in a full cache, and then every other one was used after it.
GoodDetailsStay ==
    [][\A d \in Keys : cache[d] < Ttl /\ ~Clear /\ d \notin DOMAIN cache' =>
          /\ Cardinality(Keys) = MaxSize
          /\ d = Head(Only(used, Keys))]_vars
=============================================================================
