SPECIFICATION Spec
CONSTANTS
    KeywordLimit = 4
    Lengths <- AllLengths
INVARIANT ErrorKeepsType
CHECK_DEADLOCK FALSE
