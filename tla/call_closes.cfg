CONSTANTS
    Signals <- ShortSignals
    ClaimsOnFile <- OneClaim
    FactorOnFile <- Always
    OtpLateness <- Never
    TimeLimited = FALSE
    MaxAuthAttempts = 2
    MaxOtpAttempts = 2
    MaxQueue = 2
    MaxLost = 0
SPECIFICATION FairSpec
PROPERTIES
    CallCloses
CHECK_DEADLOCK FALSE
