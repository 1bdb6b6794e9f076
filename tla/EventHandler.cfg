SPECIFICATION FairSpec
CONSTANTS
    MaxTime = 2
    MaxEvents = 2
    Chain = {c1, c2}
    NULL = NULL
    StabilityCount = 3
INVARIANTS TypeOK NothingLeftBehind ReportedWasStable
PROPERTIES EventIsReported
CHECK_DEADLOCK FALSE
