SPECIFICATION FairSpec
CONSTANTS
    Calls <- MCCalls
    MaxCalls = 2
    Allowed <- MCAllowed
    Registered <- MCRegistered
    Inputs <- MCInputs
CHECK_DEADLOCK FALSE
INVARIANTS
    TypeOK
    TranscriptAnswered
    TurnIsTranscriptSuffix
    RequestsBounded
    BudgetHonoured
    LateEffectsBounded
    EffectsAuthorised
    ToolsUsedMatchTranscript
PROPERTIES
    TimeoutEndsRun
