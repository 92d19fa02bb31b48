CONSTANTS
    MinMatch = 2
    MaxBytes = 8
    TokenBytes = 1
    StateBytes = 1
    Prompts <- Turns
    Outputs <- Answers
    Aheads <- Ahead
    Boundary = 2
    Chunk = 4
    Wide = 4
    Narrow = 2
    DiskBlock = 2
    Models <- Kinds
    MaxActive = 2
    NumLayers = 3
    NumExperts = 4
    InitialSlots = 2
    Floor = 1
    Totals = {2, 9}
    MaxMisses = 2
SPECIFICATION Spec
INVARIANTS TypeOK StateMatches
PROPERTIES LongestReuse RestorePointKept SharesSane
