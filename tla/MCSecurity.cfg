SPECIFICATION FairSpec
CONSTANTS
    Sections <- MCSections
    Names <- MCNames
    Untouchables <- MCUntouchables
    SourceChoices <- MCSource
    TargetChoices <- MCTarget
    EditChoices <- MCEdits
    MaxFaults = 1
    MaxSourceErrors = 1
    MaxEdits = 1
INVARIANT CompletedMeansMigrated
PROPERTY TargetIsKept
PROPERTY RerunChangesNothing
PROPERTY CompletesUnlessConflict
