SPECIFICATION Spec
CONSTANTS
    Calls <- MCCalls
    MaxCalls = 2
    Allowed <- MCTools
    Registered <- MCTools
    Inputs <- MCInputs
    Options <- MCOptions
CHECK_DEADLOCK FALSE
INVARIANT CaptureHonoured
