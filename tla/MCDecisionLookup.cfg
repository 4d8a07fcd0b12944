SPECIFICATION Spec
CONSTANTS
    fmv = fmv
    alice = alice
    coin1 = coin1
    coin2 = coin2
    first = first
    second = second
    transfer = transfer
    Contests = {first, second, transfer}
    Operation <- MCOperation
    Publisher = fmv
    x = x
    y = y
    Ballots = {x, y}
    NoBallot = none
    Stakes <- MCStakes
    Holdings <- MCHoldings
    TooLarge = 8
    MaxBalances = 3
    MaxBegun = 2
    MaxMoves = 1
    MaxFailures = 1
INVARIANTS FoundWasOnRecord AlarmMeansDisagreement CastIsFound RecordIsComplete
SYMMETRY MCSymmetry
CHECK_DEADLOCK FALSE
