SPECIFICATION Spec
CONSTANTS
    Events = {e1, e2, e3, e4}
    Poison = {}
    EventsLimit = 2
    ThrottleInterval = 3
    QueueLimit <- NoLimit
    FlushInterval = 2
    FilterOutcomes <- PureFilters
    CompressionStream = FALSE
    RequestOutcomes <- NoHang
INVARIANTS WaitingIsScheduled SentPerWindowBounded
PROPERTIES ImplementsDelivery ThrottleOpens
CHECK_DEADLOCK FALSE
