SPECIFICATION Spec
CONSTANTS
    p1 = p1
    p2 = p2
    n1 = n1
    n2 = n2
    Procs <- TwoProcs
    Names <- TwoNames
    NoName = NoName
    NoOne = NoOne
    Commands = {"run", "delete"}
    MaxOps = 2
    MaxId = 2
    TurnLen = 1
CHECK_DEADLOCK FALSE
PROPERTIES
    SavedWhereAsked
