SPECIFICATION FairSpec
CONSTANTS
    Slots = {c1}
    Rules <- rule
    Files <- paths
    Match <- match
    MaxLimit <- oneUnit
    MinLimit <- noMinimum
    MAX_THROTTLE_NUMS = 10
    CGI_BYTECOUNT = 30
    READ_BUF_SIZE = 2
    Requests <- filesAndScripts
    Page <- longPage
    SendSpace = 2
    Signals = {"SIGUSR1"}
    MaxBacklog = 1
    MaxInput = 1
    MaxElapsed = 3
    MaxBytes = 2
PROPERTIES TransfersEnd
CHECK_DEADLOCK FALSE
