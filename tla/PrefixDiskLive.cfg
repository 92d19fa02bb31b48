CONSTANTS
    r = r  a = a  b = b
    Block = {r}
    NoBlock = NoBlock
    Chains <- One
    NeedsRec = TRUE
    KvBytes = 1
    RecBytes = 1
    HeaderBytes = 0
    MaxBytes = 2
    MaxPending = 2
    RecEvery = 4
    WindowBytes = 1
    Faults = {"write", "read"}
    MaxClock = 0
    MaxQueue = 1
SPECIFICATION FairSpec
PROPERTIES ReadyGetsSaved WritesEnd
