SPECIFICATION FairSpec
CHECK_DEADLOCK FALSE
CONSTANTS
    Programs = {"messages", "claims"}
    BatchSize = 2
    Values = {"record", "notdict", "notjson"}
    MaxMessages = 4
    MaxStarts = 3
    MaxCrashes = 1
    MaxInterrupts = 1
    MaxAddFailures = 1
INVARIANT TypeOK
INVARIANT CommittedIsAccountedFor
INVARIANT DuplicatesBounded
PROPERTY GroupSpec
PROPERTY StoresUnlessPoisoned
