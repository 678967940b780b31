SPECIFICATION Spec
CONSTANTS
    p1 = p1
    p2 = p2
    n1 = n1
    n2 = n2
    Procs <- TwoProcs
    Names <- TwoNames
    NoName = NoName
    NoOne = NoOne
    Commands = {"run", "fork", "clear", "delete", "show"}
    MaxOps = 2
    MaxId = 3
    TurnLen = 2
SYMMETRY Symmetry
CHECK_DEADLOCK FALSE
INVARIANTS
    TypeOK
    SessionsWhole
    NothingInherited
PROPERTIES
    ImplementsSessions
