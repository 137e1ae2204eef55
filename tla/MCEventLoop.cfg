SPECIFICATION Spec
CONSTANTS
    Slots = {c1, c2}
    Rules <- noRules
    Files <- paths
    Match <- noMatch
    MaxLimit <- noLimit
    MinLimit <- noLimit
    MAX_THROTTLE_NUMS = 10
    CGI_BYTECOUNT = 30
    READ_BUF_SIZE = 2
    Requests <- plainRequests
    Page <- errorPage
    SendSpace = 1
    Signals = {"SIGUSR1", "SIGTERM"}
    MaxBacklog = 1
    MaxInput = 3
    MaxElapsed = 1
    MaxBytes = 0
SYMMETRY Symmetry
INVARIANTS InterestMatchesState NoLostWakeup
CHECK_DEADLOCK FALSE
