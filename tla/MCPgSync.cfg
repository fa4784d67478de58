SPECIFICATION Spec
CHECK_DEADLOCK FALSE
CONSTANTS
    Keys = {k1, k2}
    Data <- MCData
    NoRow = NoRow
    Imprecise = {}
    Uncastable = {}
    RowIdentifier = TRUE
    SkipUniqueViolation = TRUE
    Consumers = {c1, c2}
    NoOne = NoOne
    MaxMessages = 4
    MaxLostAcks = 1
    MaxCrashes = 1
    MaxEvictions = 1
    MaxRebalances = 1
SYMMETRY Symmetry
INVARIANT TypeOK
INVARIANT CommittedAfterApplied
INVARIANT TargetIsSourceVersion
INVARIANT StaleWriteNeedsEviction
PROPERTY CommitAdvancesByOne
