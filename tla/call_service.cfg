CONSTANTS
    Signals <- ServiceSignals
    ClaimsOnFile <- OneClaim
    FactorOnFile <- Always
    OtpLateness <- Never
    TimeLimited = FALSE
    MaxAuthAttempts = 2
    MaxOtpAttempts = 3
    MaxQueue = 1
    MaxLost = 1
SPECIFICATION Spec
INVARIANTS
    OutcomeMatchesRows
    WritesHaveACause
PROPERTIES
    FiledForGood
CHECK_DEADLOCK FALSE
