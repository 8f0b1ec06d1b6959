SPECIFICATION FairSpec
CONSTANTS
    Paths <- MCPaths
    Dirs <- MCDirs
    Contents = {"x", "y"}
    LinksOf <- MCLinksOf
    BatchSize = 1
    DocPath <- Home
    RaceFiles = FALSE
    StormLimit = 1
    Budgets <- MCBudgets
INVARIANTS
    IndexConverges
    
    NoSelfConflict
    
PROPERTIES
    ComesToRest
CHECK_DEADLOCK FALSE
