SPECIFICATION Spec
CONSTANTS
    HomeDir = "tf"
    Up <- MCUp
    FullNames <- MCFullNames
    Commands <- MCCommands
    Environments <- MCEnvironments
    Worlds <- MCWorlds
    Edits <- MCEdits
    Catalog <- MCCatalog
    Trimmed <- MCTrimmed
    Nested <- MCNested
    MaxCommands = 2
    MaxEdits = 1
INVARIANT ShippedBudget
CHECK_DEADLOCK FALSE
