SPECIFICATION FairSpec
CONSTANTS
    c1 = c1
    c2 = c2
    Children = {c1, c2}
    Seconds <- MCSeconds
    Unit = 4
    MaxInt = 15
CHECK_DEADLOCK FALSE
PROPERTIES
    TimeoutEndsCommand
