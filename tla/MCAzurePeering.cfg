SPECIFICATION FairSpec
CHECK_DEADLOCK FALSE
CONSTANTS
    MaxApps = 3
    MaxRuns = 3
    MaxResets = 3
    MaxFailures = 2
    MaxCleanups = 3
PROPERTY ErrorsHaveACause
PROPERTY AppSessionChangesNothing
PROPERTY DoneMeansPeered
PROPERTY RunEnds
