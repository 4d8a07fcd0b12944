SPECIFICATION Spec
CONSTANTS
    fmv = fmv
    alice = alice
    nobody = nobody
    coin1 = coin1
    coin2 = coin2
    Accounts = {fmv, alice}
    Publisher = fmv
    NoAccount = nobody
    Coins = {coin1, coin2}
    zoe = zoe
    Names = {zoe}
    Ballots <- MCAllBallots
    Drafts <- MCAllDrafts
    ContestRefs = {0, 1, 3}
    Blacklist <- MCBlacklist
    Holdings <- MCSparseHoldings
    Amounts = {1}
    BlockTimes = {3600, 7201}
    MaxOps = 3
    MaxRestarts = 1
INVARIANTS StoredUnderOwnOperation DecisionsWellFounded
CHECK_DEADLOCK FALSE
