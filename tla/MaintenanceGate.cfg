CONSTANTS
    MaxRebuilds = 2
    MaxReloads = 1
SPECIFICATION Spec
INVARIANTS FatalLatched ServingReady SealedStaysClosed OneRebuild
PROPERTIES NoWedge
CHECK_DEADLOCK FALSE
