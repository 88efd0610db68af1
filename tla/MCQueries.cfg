SPECIFICATION ApiSpec
CONSTANTS
    c = c
    s1 = s1
    s2 = s2
    ann = ann
    bob = bob
    Order <- MCOrder
    Genesis <- MCGenesis
    Ins <- MCIns
    Outs <- MCOuts
    Requests <- MCRequests
    Word = 16
    MaxBlocks = 3
    MaxOrphans = 1
    MaxChanges = 2
    e1 = e1
    e2 = e2
    e3 = e3
    e4 = e4
    d1 = d1
    d2 = d2
    d3 = d3
    d4 = d4
    Procs = {p1, p2}
    XRequests <- MCXRequests
    Derived <- MCDerived
SYMMETRY Symmetric
CONSTRAINTS Safe Bounded
INVARIANTS CacheExact   
