CONSTANTS
    Utterances <- McUtterances
    Replies <- McReplies
    Tools <- McTools
    InitialLanguage = "en"
    MAX_CONSECUTIVE_LOW_STT_TURNS = 2
    MAX_ADVERSARIAL_STREAK = 2
    Budgets <- McBudgets
    Claims = {"L2"}
    ClaimsOnFile <- McClaims
    MaxRuns = 2
SPECIFICATION Spec
INVARIANTS
    TypeOK
    OneTurnPerIndex
    AnswersFollowQuestions
    EventsMatchMarkers
    SignalsAreEarned
    DissatisfactionOnFile
    SamplesMeasureTurns
    ReadsAreEarned
    FinalIsRecent
PROPERTIES
    InitialSentimentIsStable
CHECK_DEADLOCK FALSE
