SPECIFICATION TailSpec
CONSTANTS
    TxsPerBlock = 2
    EnrollmentRooted = TRUE
    Unreplayable = TRUE
    Settings <- MCSettings
    MaxHeight = 2
    MaxSeals = 3
INVARIANT NoDeadEnd
INVARIANT RunningStateIsTip
INVARIANT ReceiptsUpToWatermark
INVARIANT ServedIsDurable
PROPERTY ServedIsAppendOnly
