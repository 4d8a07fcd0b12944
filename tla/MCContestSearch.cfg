SPECIFICATION SearchSpec
CONSTANTS
    none = none
    vote = vote
    coin = coin
    None = none
    Users = {1}
    Words = {vote, coin}
    Drafts <- MCDrafts
    Searches <- MCSearches
    FeedAllowed = TRUE
    Counts = {1, 2}
    MaxContests = 3
    MaxTime = 3
INVARIANTS EachContestOnce BreakIsSafe
CHECK_DEADLOCK FALSE
