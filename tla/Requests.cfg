CONSTANTS
    MaxUids = 2
    MaxTokens = 2
    Rounds = 2
    Chunks = 0
    MaxStops = 1
    MaxLeavers = 1
SPECIFICATION Spec
INVARIANTS TypeOK AccountingExact SealedExact OrderKept DecodeReleased
PROPERTIES EveryRequestEnds
CHECK_DEADLOCK FALSE
