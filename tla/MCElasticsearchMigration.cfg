SPECIFICATION FairSpec
CHECK_DEADLOCK FALSE
CONSTANTS
    Policies = {"hot", "keep"}
    Versions <- MCVersions
    FirstSources <- MCFirstSources
    NoPolicy = NoPolicy
    Unread = Unread
    MaxWrites = 1
    MaxReapplies = 2
    MaxFailures = 1
INVARIANT ReportIsExact
INVARIANT MatchIsMigrated
INVARIANT FullMigrationMatches
INVARIANT CountsAreTrue
PROPERTY EndsWithAnAnswer
