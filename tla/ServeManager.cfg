SPECIFICATION Spec
CONSTANTS
    MaxServes = 2
    MaxCalls = 2
    MaxBoots = 2
    AutoRestart = TRUE
    StopOnExit = TRUE
    SaveFails = TRUE
    OutboxFails = TRUE
INVARIANTS TypeOK OneServe StopHolds ReceiptsHold Recorded
PROPERTIES NothingStuck
CHECK_DEADLOCK FALSE
