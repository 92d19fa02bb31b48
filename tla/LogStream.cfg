SPECIFICATION Spec
CONSTANTS
    tailer = tailer
    lifecycle = lifecycle
    Writer = {tailer, lifecycle}
    Capacity = 2
    QueueMax = 2
    MaxRecords = 5
    MaxConnects = 2
INVARIANTS TypeOK LossAnnounced
PROPERTIES OnceInOrder AllHeard
CHECK_DEADLOCK FALSE
