SPECIFICATION FairSpec
CHECK_DEADLOCK FALSE
CONSTANTS
    NumMessages = 3
    BatchSize = 2
    TopicStates = {TRUE, FALSE}
    MaxForeign = 1
    MaxRestarts = 1
    MaxErrors = 1
INVARIANT FinalSuccessIsReal
INVARIANT NoSpuriousFailure
INVARIANT MissingIsMissing
PROPERTY ProcessEnds
