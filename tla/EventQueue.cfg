SPECIFICATION Spec
CONSTANTS
    Events = {e1, e2, e3, e4}
    Poison = {e1}
    EventsLimit = 3
    ThrottleInterval = 2
    QueueLimit = 2
    FlushInterval = 1
    FilterOutcomes <- AllFilters
    CompressionStream = TRUE
    RequestOutcomes <- AllOutcomes
SYMMETRY PoisonSymmetry
INVARIANTS TypeOK EventsKept
CHECK_DEADLOCK FALSE
