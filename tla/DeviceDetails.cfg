SPECIFICATION DetailsSpec
CONSTANTS
    Devices = {d1, d2, d3}
    Workers = {w1, w2}
    MaxSize = 2
    Ttl = 2
INVARIANTS OrderMatchesCache OrderIsLeastRecentFirst CachedMeansDealtWith
PROPERTY GoodDetailsStay
CHECK_DEADLOCK FALSE
