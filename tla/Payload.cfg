SPECIFICATION Spec
CONSTANTS
    KeywordLimit = 4
    Lengths <- AllLengths
INVARIANTS TruncationFits WireReadsBack
CHECK_DEADLOCK FALSE
