CONSTANTS
    j1 = j1
    j2 = j2
    Jobs <- MCJobs
    MaxAttempts = 3
    MaxAdhoc = 2
SPECIFICATION FairSpec
INVARIANTS
    TypeOK
    NeverRedialled
    AttemptsAreCounted
    ExhaustionIsEarned
PROPERTIES
    ImplementsLine
    JobsEnd
CHECK_DEADLOCK FALSE
