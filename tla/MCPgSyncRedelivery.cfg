SPECIFICATION FairSpec
CHECK_DEADLOCK FALSE
CONSTANTS
    Keys = {k1}
    Data <- MCData
    NoRow = NoRow
    Imprecise = {}
    Uncastable = {}
    RowIdentifier = TRUE
    SkipUniqueViolation = FALSE
    Consumers = {c1}
    NoOne = NoOne
    MaxMessages = 3
    MaxLostAcks = 1
    MaxCrashes = 0
    MaxEvictions = 0
    MaxRebalances = 0
PROPERTY EveryChangeIsPushed
