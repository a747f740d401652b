CONSTANTS
    c1 = c1
    c2 = c2
    c3 = c3
    c4 = c4
    k1 = k1
    k2 = k2
    p1 = p1
    p2 = p2
    Callers <- MCCallers
    Keys <- MCKeys
    Payloads <- MCPayloads
    KeyOf <- MCKeyOf
    PayloadOf <- MCPayloadOf
    PollAttempts = 2
SPECIFICATION FairSpec
INVARIANTS
    TypeOK
    AtMostOnce
    EffectIffCompleted
    AnswerIsTheEffect
PROPERTIES
    SettledIsFinal
    CallEnds
    ImplementsOnce
CHECK_DEADLOCK FALSE
