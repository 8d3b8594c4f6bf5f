SPECIFICATION Spec
CONSTANTS
    Requests = {r1, r2, r3, r4}
    Concurrent = 2
    MinInterval = 3
INVARIANT BurstIsBounded
