CONSTANTS
    ProxyParts = {"breaker"}
    MinRequests = 1
    ThresholdNum = 2
    ThresholdDen = 3
    Requests = {"r1", "r2", "r3"}
    MaxTotal = 4
    Header = {"connection", "listed", "host", "backend", "id", "id2", "noise", "no id", "own",
              "type", "opaque", "blank"}
    HopByHop = {"connection"}
    Connection = "connection"
    Listed = {"listed"}
    Host = {"host", "backend"}
    BackendHost = "backend"
    RequestId = {"id", "id2", "noise", "no id", "own"}
    OwnId = "own"
    Opaque = {"opaque", "noise"}
    Blank <- MCBlank
    Cap = 1
    Calls = {"c1", "c2"}
    Asks <- MCAsks
    Responses <- MCResponses
    Members = {"a", "b"}
    failure_threshold = 3
    success_threshold = 2
    MaxProbes = 5

SPECIFICATION ProxySpec

INVARIANT HalfOpenHasProbe

CHECK_DEADLOCK FALSE
