SPECIFICATION Spec
CONSTANTS
    None = none
    MaxCheckouts = 2
    Requests <- MCRequests
    Limits <- MCLimits
    Schedule <- MCSchedule
    DataFee = 16
    KeyValid = TRUE
    MaxCodes = 1
    MaxPayments = 2
INVARIANTS PublishedIsPaidFor IgnoredOnlyIfRepriced
PROPERTIES BuyerLearns
CHECK_DEADLOCK FALSE
