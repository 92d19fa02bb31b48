CONSTANTS
    r = r  a = a  b = b
    Block = {r, a, b}
    NoBlock = NoBlock
    Chains <- Fork
    NeedsRec = FALSE
    KvBytes = 1
    RecBytes = 1
    HeaderBytes = 0
    MaxBytes = 2
    MaxPending = 2
    RecEvery = 4
    WindowBytes = 1
    Faults = {"write", "read", "crash", "snapshot", "layout", "persist"}
    MaxClock = 0
    MaxQueue = 1
SPECIFICATION Spec
INVARIANTS TypeOK BacklogExact ReadyHeals
