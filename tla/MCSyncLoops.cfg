SPECIFICATION FairSpec
CONSTANTS
    Loop <- MCLoop
    Notified <- MCNotified
    Retried <- MCNotified
    Inputs <- MCInputs
    MaxQueue = 1
INVARIANTS ClosedAfterLoops
PROPERTIES BackendSeen ShutdownEnds
CHECK_DEADLOCK FALSE
