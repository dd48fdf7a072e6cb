SPECIFICATION Spec
CONSTANTS
    Transactions = {t1, t2}
    Spans = {}
    Tasks = {}
    NoTransaction = NoTransaction
    StartCalls <- ThresholdCalls
    ReuseThreshold = 2
    SampledOutcomes <- OnlyTrue
    PageLoadSampled = FALSE
    MonitorLongtasks = TRUE
    IgnoreOutcomes <- Both
    MaxClock = 2
INVARIANT HiddenVerdict
PROPERTY ImplementsLifecycle
CHECK_DEADLOCK FALSE
