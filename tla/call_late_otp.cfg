CONSTANTS
    Signals <- ShortSignals
    ClaimsOnFile <- OneClaim
    FactorOnFile <- Always
    OtpLateness <- BothAnswers
    TimeLimited = FALSE
    MaxAuthAttempts = 2
    MaxOtpAttempts = 2
    MaxQueue = 1
    MaxLost = 0
SPECIFICATION FairSpec
PROPERTIES
    OtpAnswerIsHandled
CHECK_DEADLOCK FALSE
