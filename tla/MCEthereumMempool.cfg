SPECIFICATION FairSpec
CONSTANTS
    a1 = a1
    a2 = a2
    NoAddr = NoAddr
    Addrs = {a1, a2}
    Txs = {1}
    From <- MCFrom
    To <- MCTo
    Payload <- MCPayload
    Logs <- MCLogs
    Timeout = 0
    Period = 1
    MaxBlocks = 3
    MaxDrops = 1
    MaxFails = 1
INVARIANTS ListsAgree
PROPERTIES  NodeFollowed
CHECK_DEADLOCK FALSE
