SPECIFICATION RouteSpec
CONSTANTS
    Transactions = {t1, t2}
    Spans = {s1}
    Tasks = {}
    NoTransaction = NoTransaction
    StartCalls <- Calls
    ReuseThreshold = 1
    SampledOutcomes <- OnlyTrue
    PageLoadSampled = FALSE
    MonitorLongtasks = FALSE
    IgnoreOutcomes <- OnlyFalse
    MaxClock = 2
    MaxComponents = 2
    MaxFrames = 2
    MaxNavigations = 2
INVARIANTS RouteTypeOK FinishedOrHeld
PROPERTIES RouteChangeEnds
CHECK_DEADLOCK FALSE
