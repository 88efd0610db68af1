SPECIFICATION FairSpec
CONSTANTS
    a1 = a1
    a2 = a2
    NoAddr = NoAddr
    Addrs = {a1, a2}
    Txs = {1, 2, 3}
    Outs <- MCOuts
    Ins <- MCIns
    OutpointAddr <- MCOutpointAddr
    Indexed <- MCIndexed
    Workers = {w1, w2}
    SubWorkers = 1
    MaxResyncs = 2
    MaxMoves = 2
    MaxFails = 1
INVARIANTS EntriesExact ResyncExact NotifiedOnce
PROPERTIES ResyncEnds
CHECK_DEADLOCK FALSE
