SPECIFICATION ApiSpec
CONSTANTS
    Transactions = {t1, t2}
    Spans = {s1, s2}
    Tasks = {}
    NoTransaction = NoTransaction
    StartCalls <- Clicks
    ReuseThreshold = 2
    SampledOutcomes <- OnlyTrue
    PageLoadSampled = FALSE
    MonitorLongtasks = FALSE
    IgnoreOutcomes <- OnlyFalse
    MaxClock = 1
    Xhrs = {x1}
    XhrCalls = {c1, c2}
    FetchCalls = {f1}
    NoSpan = NoSpan
    NoXhr = NoXhr
SYMMETRY Symmetry
INVARIANTS ApiTypeOK NothingHangs OutcomeAgrees
PROPERTIES OutcomesAreFinal
CHECK_DEADLOCK FALSE
