SPECIFICATION Spec
CONSTANTS
    t1 = t1
    Order <- OneTx
    Coins <- AllCoins
    MaxBlocks = 3
    MaxMoves = 2
    Word = 16
    Period = 2
CONSTRAINT TokensApart
INVARIANTS  NotFoundTrue 
 
