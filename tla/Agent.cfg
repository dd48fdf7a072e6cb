SPECIFICATION Spec
CONSTANTS
    Tabs = {a, b}
    LocalStorage = LocalStorage
    InitConfigs <- Configs
    Rates <- TwoRates
    NoRate = NoRate
    Published <- ThreeVersions
    SessionTimeout = 0
    MaxClock = 2
    MaxLoads = 3
INVARIANTS AgentTypeOK InitialisedOnce StoredAsPublished SamplesAsPublished NumberedInOrder
PROPERTIES PageLoadSettles
CHECK_DEADLOCK FALSE
