SPECIFICATION FairSpec
CHECK_DEADLOCK FALSE
CONSTANTS
    Size = 1
    SongIds = {1, 2}
    FirstSongs = {2}
    Charts = {"all", "punk"}
    AdderFirst = {TRUE, FALSE}
    MaxPlays = 2
    MaxCrashes = 1
    ChartsOf <- MCChartsOf
    FirstPlays <- OnePlay
INVARIANT TypeOK
INVARIANT ChartsAreTop
INVARIANT NoPlayIsLost
PROPERTY ChartsSettle
