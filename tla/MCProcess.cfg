SPECIFICATION Spec
CONSTANTS
    MaxTotal = 7
    Configs <- MCConfigs
    MaxRetries = 1
    Best = 3
    Word = 8
    MaxRuns = 2
INVARIANTS  FullAfterSync RangesExact
PROPERTIES KillNoticed SignalQuits Answered
CHECK_DEADLOCK FALSE
