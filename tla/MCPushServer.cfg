SPECIFICATION FairSpec
CONSTANTS
    c1 = c1
    c2 = c2
    Clients = {c1, c2}
    SioClients = {x1}
    Addrs = {a1, a2}
    OutSize = 1
    a1 = a1
    a2 = a2
    Asks <- MCAsks
    MaxEvents = 1
CONSTRAINT Apart
INVARIANTS NotificationsExact 
 
CHECK_DEADLOCK FALSE
