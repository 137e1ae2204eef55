SPECIFICATION PromptSpec
CONSTANTS
    MinRequests = 2
    ThresholdNum = 1
    ThresholdDen = 2
    Tasks = {t1, t2, t3}
    MaxTotal = 3
SYMMETRY Symmetry
INVARIANT IdleOpenBreakerRecovers
