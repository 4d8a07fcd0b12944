SPECIFICATION ListFairSpec
CONSTANTS
    Voters = {1, 2, 3}
    Me = 2
    PageSize = 2
    MaxVotes = 4
    MaxFetches = 2
    MaxFailures = 1
INVARIANTS SnapshotCountedOnce PageShowsSnapshot
PROPERTIES FetchesEnd
CHECK_DEADLOCK FALSE
