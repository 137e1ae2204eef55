SPECIFICATION FairSpec
CONSTANTS
    MinRequests = 2
    ThresholdNum = 1
    ThresholdDen = 2
    Tasks = {t1, t2}
    MaxTotal = 3
INVARIANT HalfOpenHasResolver
PROPERTY HalfOpenIsResolved
