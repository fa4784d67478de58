SPECIFICATION FairSpec
CHECK_DEADLOCK FALSE
CONSTANTS
    Keys = {k1, k2}
    Data <- MCTwoData
    NoRow = NoRow
    Imprecise = {}
    Uncastable = {}
    RowIdentifier = FALSE
    SkipUniqueViolation = TRUE
    Consumers = {c1, c2}
    NoOne = NoOne
    MaxMessages = 4
    MaxLostAcks = 1
    MaxCrashes = 1
    MaxEvictions = 0
    MaxRebalances = 1
PROPERTY ViewSpec
PROPERTY EveryChangeIsPushed
