SPECIFICATION Spec
CONSTANTS
    Callers = {c1, c2}
    MaxLogins = 2
    MaxTokens = 3
    AccountOf <- MCAccountOf
    None = None
INVARIANTS
    StoredIsLatest
    RefusedMeansGone
PROPERTIES
    CallersReturn
CHECK_DEADLOCK FALSE
