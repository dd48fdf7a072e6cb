SPECIFICATION Spec
CONSTANTS
    Events = {e1, e2}
    Poison = {e1}
    EventsLimit = 2
    ThrottleInterval = 2
    QueueLimit <- NoLimit
    FlushInterval = 1
    FilterOutcomes <- NoFilters
    CompressionStream = FALSE
    RequestOutcomes <- Delivers
PROPERTY AddSchedulesFlush
CHECK_DEADLOCK FALSE
