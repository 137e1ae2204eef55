CONSTANTS
    ServerParts = {"timers", "cache", "cgi", "startup", "head", "roots", "algorithms"}
    Delays = {1, 2}
    MaxTimers = 3
    MaxClock = 4
    Paths = {"p"}
    Inodes = {1, 2}
    Sizes = {1, 2}
    Stamps = {1}
    Conns = {"c"}
    DefaultAge = 3
    MaxSize = 2
    ReadBuf = 2
    PipeSize = 2
    MaxOut = 3
    cgi_limit = 1
    Starts = {"s", "t"}
    Families = {"v6", "v4"}
    Configs <- MCConfigs
    Inputs <- MCInputs
    Dirs <- MCDirs
    DataDirs <- MCDataDirs
    Logs <- MCLogs
    Home <- MCHome

SPECIFICATION ServerSpec

INVARIANTS
    InUseStaysCached
    CountReturns
    ServesSafely
    StatusIsTrue
    HeadFoundAtItsEnd
    DatesRoundTrip
    DatesAreGregorian
    RangesAreExact
    NormalPathIsTheWalk
    MatchIsTheLanguage
    LastOptionWins

PROPERTIES
    KeepsAlarmPromise
    ServedIsCurrent
    IdleIsEvicted
    DispatchEnds
    ParentEnds
    ServedPlaceIsKept
    LogStaysInPlace

CHECK_DEADLOCK FALSE
