SPECIFICATION FairSpec
CONSTANTS
    Calls <- MCCalls
    MaxCalls = 2
    Allowed <- MCTools
    Registered <- MCTools
    Inputs <- MCInputs
    Options <- MCOptions
CHECK_DEADLOCK FALSE
INVARIANTS
    TypeOK
    EffectsAreLogged
    LogMatchesTranscript
    NothingLeftRunning
    RunRowTrue
    SuccessIsComplete
    SavedTurnWhole
    TimeoutReported
    UnsavedByCode
    RunsCaptureHonoured
PROPERTIES
    TimeoutEndsProcess
