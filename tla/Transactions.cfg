SPECIFICATION Spec
CONSTANTS
    Transactions = {t1, t2}
    Spans = {s1, s2}
    Tasks = {k1}
    NoTransaction = NoTransaction
    StartCalls <- ReplaceCalls
    ReuseThreshold = 2
    SampledOutcomes <- OnlyTrue
    PageLoadSampled = FALSE
    MonitorLongtasks = TRUE
    IgnoreOutcomes <- OnlyFalse
    MaxClock = 1
SYMMETRY Symmetry
INVARIANTS TypeOK SpansAccounted OneManaged ObserversFollowCurrent SettledOnce
PROPERTIES BlockingSpanHolds NoForgottenFinish ClosedAfterEnd
CHECK_DEADLOCK FALSE
