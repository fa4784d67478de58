SPECIFICATION FairSpec
CONSTANTS
    Sections <- MCSections
    Names <- MCNames
    Untouchables <- MCUntouchables
    SourceChoices <- MCSource
    TargetChoices <- MCTarget
    EditChoices <- MCEdits
    MaxFaults = 0
    MaxSourceErrors = 0
    MaxEdits = 0
PROPERTY EventuallyCompletes
