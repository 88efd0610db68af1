SPECIFICATION Spec
CONSTANTS
    MaxTotal = 7
    Configs <- ZeroConfigs
    MaxRetries = 1
    Best = 3
    Word = 8
    MaxRuns = 2
PROPERTY RollbackQuits
CHECK_DEADLOCK FALSE
