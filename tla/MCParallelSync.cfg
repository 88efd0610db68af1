SPECIFICATION FairSpec
CONSTANTS
    SyncWorkers = 3
    Lower = 5
    Higher = 9
    Keep = 2
INVARIANTS NoSkippedBlock BlocksAccountedFor EndPromise
PROPERTIES Termination
CHECK_DEADLOCK FALSE
