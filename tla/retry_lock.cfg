CONSTANTS
    j1 = j1
    j2 = j2
    Jobs <- MCJobs
    MaxAttempts = 3
    MaxAdhoc = 1
SPECIFICATION FairSpec
PROPERTIES
    LockIsFreed
CHECK_DEADLOCK FALSE
