SPECIFICATION Spec
CONSTANTS
    MaxLosses = 1
    MaxWalletLosses = 1
PROPERTIES ConnectPromiseSettles
CHECK_DEADLOCK FALSE
