SPECIFICATION DbSpec
CONSTANTS
    alice = alice
    bob = bob
    stake = stake
    marker = marker
    none = none
    unknown = unknown
    NoTx = NoTx
    NoRow = NoRow
    NoAddr = none
    Unknown = unknown
    Tx <- MCTx
    Mined <- MCMined
    Ins <- MCIns
    Outs <- MCOuts
    Indexable <- MCIndexable
    Owner <- MCOwner
    MapMin = 3
    MaxHeight = 4
    MaxBlockTxs = 3
    ann = ann
    ben = ben
    tokA = tokA
    tokB = tokB
    Zero = zero
    Missing = missing
    Bad = bad
    NoContracts = NoContracts
    EthTx <- MCEthTx
    From <- MCFrom
    To <- MCTo
    Transfers <- MCTransfers
    EthAddr = {ann, ben, zero}
    MaxEthHeight = 3
    MaxEthBlockTxs = 2
    TxidLen = 2
    AddrLen = 2
    WordBytes = 2
    MaxWords = 3
    RefreshIterator = 2
    Decimals = 3
    RowDescs <- MCRowDescs
    RowHeights <- MCRowHeights
    TxLists <- MCTxLists
    Data <- MCData
    MaxRows = 3
    MaxChanges = 2
CONSTRAINT Safe
INVARIANTS BitcoinIndexExact EthereumIndexExact ColumnsExact
CHECK_DEADLOCK FALSE
