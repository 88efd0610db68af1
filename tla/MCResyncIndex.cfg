SPECIFICATION FairSpec
CONSTANTS
    a = a
    b = b
    Labels <- MCLabels
    MaxLen = 4
    MaxDepth = 2
    Keep = 2
    SyncChunk = 1
    QueueSize = 1
    Modes <- MCModes
INVARIANTS Linked ForksCanBeUndone
PROPERTIES TipConverges
