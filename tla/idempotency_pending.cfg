CONSTANTS
    c1 = c1
    c2 = c2
    c3 = c3
    c4 = c4
    k1 = k1
    k2 = k2
    p1 = p1
    p2 = p2
    Callers <- MCCallers
    Keys <- MCKeys
    Payloads <- MCPayloads
    KeyOf <- MCKeyOf
    PayloadOf <- MCPayloadOf
    PollAttempts = 2
SPECIFICATION RetryingSpec
PROPERTIES
    ClaimIsSettled
CHECK_DEADLOCK FALSE
