SPECIFICATION DetailsSpec
CONSTANTS
    fmv = fmv
    alice = alice
    nobody = nobody
    coin1 = coin1
    coin2 = coin2
    Accounts = {fmv, alice}
    Publisher = fmv
    NoAccount = nobody
    Coins = {coin1}
    zoe = zoe
    Names = {zoe}
    Ballots <- MCPlainBallots
    Drafts <- MCPlainDrafts
    ContestRefs = {0}
    Blacklist <- MCNoBlacklist
    Holdings <- MCFullHoldings
    Amounts = {1}
    BlockTimes = {3601, 7200, 10801}
    MaxOps = 6
    MaxRestarts = 1
    HistoryLengths <- MCLengths
    MaxHistoryLength = 3
    TimeWidth = 8388608
INVARIANTS VolumeWithinSupply HistoriesAgree
PROPERTIES PastHoursFrozen
CHECK_DEADLOCK FALSE
