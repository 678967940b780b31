SPECIFICATION Spec
CONSTANTS
    HomeDir = "tf"
    Up <- MCUp
    FullNames <- MCFullNames
    Commands <- MCCommands
    Environments <- MCEnvironments
    Worlds <- MCWorlds
    Edits <- MCEdits
    Catalog <- MCCatalog
    Trimmed <- MCTrimmed
    Nested <- MCNested
    MaxCommands = 2
    MaxEdits = 1
INVARIANTS
    TypeOK
    AtOneMoment
    ValidatedModesRun
    ListedSkillsShow
    HomeConfigShields
CHECK_DEADLOCK FALSE
