SPECIFICATION FairSpec
CONSTANTS
    Calls <- MCCalls
    MaxCalls = 2
    Allowed <- MCAllowed
    Registered <- MCTools
    Inputs <- MCInputs
    Options <- MCOptions
CHECK_DEADLOCK FALSE
PROPERTIES
    HardCap
