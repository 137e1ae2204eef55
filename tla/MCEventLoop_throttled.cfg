SPECIFICATION Spec
CONSTANTS
    Slots = {c1, c2}
    Rules <- rule
    Files <- paths
    Match <- match
    MaxLimit <- twoUnits
    MinLimit <- noMinimum
    MAX_THROTTLE_NUMS = 10
    CGI_BYTECOUNT = 30
    READ_BUF_SIZE = 2
    Requests <- files
    Page <- longPage
    SendSpace = 2
    Signals = {}
    MaxBacklog = 1
    MaxInput = 1
    MaxElapsed = 3
    MaxBytes = 2
SYMMETRY Symmetry
INVARIANTS InterestMatchesState SendersBalance NoStaleEvent BodyWithinRule
