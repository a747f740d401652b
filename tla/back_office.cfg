CONSTANTS
    Sheets <- McSheets
    DueIn <- McDueIn
    WarningTime = 1
    MaxRequests = 2
    MaxFaults = 2
    Shapes = {"late_status"}
    Journeys = {"journey_1", "journey_2"}
    Statuses = {"COMPILED", "FIX_APPLIED"}
    Clients = {"qa", "ci"}
    MaxServed = 5
    InitialRows <- McRows
    Inserts <- McInserts
    Outcomes <- McOutcomes
    Moods <- McMoods
    MaxWrites = 2
    OTP_TTL = 2
    OTP_RESEND_COOLDOWN = 1
    OTP_LOCKOUT = 2
    MAX_OTP_SENDS_PER_SESSION = 2
    MAX_OTP_ATTEMPTS = 2
    MaxTexts = 4
    MaxTime = 5
SPECIFICATION Spec
INVARIANTS
    TypeOK
    MaskingIsExact
    OneEscalationPerDeadline
    AlarmsMatchDeadlines
    GovernanceIsHonest
    ReportsAgree
    OtpLimitsHold
PROPERTIES
    MonitorEnds
CHECK_DEADLOCK FALSE
