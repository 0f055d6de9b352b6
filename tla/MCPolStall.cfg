SPECIFICATION FairProducerSpec
CONSTANTS
    UserTxs <- MCUserTxs
    MaxSize = 3
    MaxTxPerBlock = 2
    MaxHeight = 2
    ConfirmationDepth = 1
    FinalityDepth = 1
    Retention = 1
    MaxFutureNonce = 1
    MaxQuarantine = 1
    MaxSubmits = 2
    MaxFaults = 1
    Roles = {"producer"}
PROPERTY SealedTipBecomesClear
CHECK_DEADLOCK FALSE
