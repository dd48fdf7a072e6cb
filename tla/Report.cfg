SPECIFICATION Spec
CONSTANTS
    Bootstrap = 1
    LongTaskThreshold = 1
    UserTimingThreshold = 1
    MaxSpanDuration = 5
    DurationThreshold = 4
    SimilarParts = 3
    Timings <- TwoTimings
    Starts <- StartCalls
    Initiators = {"fetch", "video"}
    MaxTime = 4
    Mixes <- MeetingMixes
INVARIANTS ReportTypeOK EverySpanReported TimesAgree OneSpanPerCall ExperienceAgrees
CHECK_DEADLOCK FALSE
