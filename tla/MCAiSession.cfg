SPECIFICATION FairSpec
CONSTANTS
    Paths = {"a", "b"}
    RaceFiles = FALSE
    MaxTurns = 2
    MaxCalls = 2
    Budgets <- MCBudgets
    HistoryCap = 4
    MinRawTurns = 1
    SummaryCap = 2
    SummaryOverhead = 0
INVARIANTS
    LeftBusyOnlyByCancel
    AppliesOnlyApproved
    CallsAnswered
    HistoryFits
PROPERTIES
    NoBlindOverwrite
    BusyEnds
CHECK_DEADLOCK FALSE
