SPECIFICATION Spec
CONSTANTS
    Garbage = Garbage
    NoFrame = NoFrame
    RawMaxAges = {2, 4}
    RawIntervals = {Garbage, 9}
    MaxAgeLow = 2
    MaxAgeHigh = 4
    DefaultMaxAge = 4
    DefaultInterval = 3
    IntervalCap = 5
    MaxStep = 1
    WriteTimeout = 1
    Watched <- MCWatched
    FrameSet <- MCFrameSet
    Details <- MCDetails
INVARIANTS TypeOK HealthyMeansUsable ReceivingStaysHealthy NumbersKeepTheirField
PROPERTIES BadItemCostsItself WrittenItemsAreLookedUp
