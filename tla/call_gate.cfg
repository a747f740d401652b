CONSTANTS
    Signals <- GateSignals
    ClaimsOnFile <- EveryKindOfClaim
    FactorOnFile <- BothAnswers
    OtpLateness <- BothAnswers
    TimeLimited = TRUE
    MaxAuthAttempts = 2
    MaxOtpAttempts = 3
    MaxQueue = 1
    MaxLost = 1
SPECIFICATION Spec
INVARIANTS
    TypeOK
    DisclosureIsEarned
    GuessesAreLimited
    SessionRowKeepsUp
PROPERTIES
    ImplementsProtocol
CHECK_DEADLOCK FALSE
