SPECIFICATION FairSpec
CHECK_DEADLOCK FALSE
CONSTANTS
    FirstStates = {"none", "REBUILDING", "RUNNING", "POWEROFF"}
    MaxRows = 3
    MaxFailures = 3
    MaxInterrupts = 2
INVARIANT TypeOK
INVARIANT RowsAreCaptured
PROPERTY LeftoversDoNotStopARun
PROPERTY FeedSpec
PROPERTY EveryRowIsPrinted
PROPERTY RunGetsThrough
