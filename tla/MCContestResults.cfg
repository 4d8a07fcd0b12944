SPECIFICATION FairResultsSpec
CONSTANTS
    fmv = fmv
    alice = alice
    nobody = nobody
    coin1 = coin1
    zoe = zoe
    nothing = nothing
    Nothing = nothing
    Accounts = {fmv, alice}
    Publisher = fmv
    NoAccount = nobody
    Coins = {coin1}
    Names = {zoe}
    Ballots <- MCBallots
    Drafts <- MCDrafts
    ContestRefs = {0}
    Blacklist <- MCBlacklist
    Holdings <- MCHoldings
    Amounts = {1}
    BlockTimes = {3600, 3601, 3602}
    MaxOps = 4
    MaxRestarts = 0
    Rank <- MCRank
INVARIANTS TallyMatchesPoll ContestantsCurrent
PROPERTIES ImplementsPoll BlockReachesApp
CHECK_DEADLOCK FALSE
