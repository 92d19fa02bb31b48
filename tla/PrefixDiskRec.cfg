CONSTANTS
    r = r  a = a  b = b
    Block = {r, a}
    NoBlock = NoBlock
    Chains <- Single
    NeedsRec = TRUE
    KvBytes = 1
    RecBytes = 2
    HeaderBytes = 1
    MaxBytes = 4
    MaxPending = 3
    RecEvery = 4
    WindowBytes = 1
    Faults = {"write", "crash"}
    MaxClock = 0
    MaxQueue = 1
SPECIFICATION Spec
INVARIANTS PendingBacked BudgetHeld RestDurable
PROPERTY ImplementsDurable
