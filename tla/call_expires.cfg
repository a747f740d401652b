CONSTANTS
    Signals <- ShortSignals
    ClaimsOnFile <- OneClaim
    FactorOnFile <- Always
    OtpLateness <- Never
    TimeLimited = TRUE
    MaxAuthAttempts = 2
    MaxOtpAttempts = 2
    MaxQueue = 1
    MaxLost = 0
SPECIFICATION Spec
INVARIANTS
    AttemptIsFiled
CHECK_DEADLOCK FALSE
