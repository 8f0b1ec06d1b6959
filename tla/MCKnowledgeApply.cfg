SPECIFICATION FairSpec
CONSTANTS
    c1 = c1
    c2 = c2
    Calls = {c1, c2}
    Targets = {p1, p2}
    None = None
    Answers <- MCAnswers
    Budgets <- MCBudgets
    RaceLocks = FALSE
    RaceFiles = FALSE
    MaxNow = 1
INVARIANTS
    
    CommittedIsPublished
    PendingIsUndone
PROPERTIES
    UserFilesKept
    EventuallySettled
