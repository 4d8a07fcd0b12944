SPECIFICATION Spec
CONSTANTS
    Accounts = {alice, bob}
    FirstAccount = alice
    FeedLength = 3
    Batch = 2
    More = 1
    Full = 3
    MaxActs = 2
    MaxSessions = 2
INVARIANTS CurrentContestsRight BusyWhileFetching
PROPERTIES FillsUp
CHECK_DEADLOCK FALSE
