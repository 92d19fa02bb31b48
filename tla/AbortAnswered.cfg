CONSTANTS
    MaxUids = 2
    MaxTokens = 2
    Rounds = 2
    Chunks = 0
    MaxStops = 1
    MaxLeavers = 1
SPECIFICATION Spec
PROPERTIES AbortAnswered
CHECK_DEADLOCK FALSE
