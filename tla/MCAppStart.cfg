SPECIFICATION StartSpec
CONSTANTS
    MaxLosses = 2
    MaxWalletLosses = 2
    alice = alice
    bob = bob
    Accounts = {alice, bob}
    Listings <- MCListings
    NoAccount = nobody
    MaxStartLosses = 2
INVARIANTS BackendIsLive NewestCompletes AccountsOnce CoinsKnown
PROPERTIES ImplementsConnection Starts
CHECK_DEADLOCK FALSE
