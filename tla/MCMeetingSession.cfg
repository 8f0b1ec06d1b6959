SPECIFICATION Spec
CONSTANTS
    Sessions = {1, 2}
    Budgets <- MCBudgets
INVARIANTS
    FinalIsWhole
    SavingIsDurable
    
PROPERTIES
    NewSessionUndisturbed
    FinalizingEnds
CHECK_DEADLOCK FALSE
