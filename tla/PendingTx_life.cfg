\* A transaction between the mempool, two branches and the cleaner.
SPECIFICATION FairSpec
CONSTANTS
    g = g
    a1 = a1
    b1 = b1
    b2 = b2
    worker = worker
    api = api
    BlockId <- McBlockId
    Genesis = g
    Parent <- McParent
    Number <- McNumber
    Anc <- McAnc
    NoBlock = NoBlock
    Tx = {1}
    Wd = {}
    TxsOf <- McTxsOf
    WdsOf <- McWdsOf
    Polyjuice = {1}
    Reader = {worker, api}
    Api = {api}
    NoRow = NoRow
    Pending = Pending
    MaxDeaths = 2
INVARIANTS TypeOK BlocksKeepTheirTransactions RowsNameStoredBlocks
PROPERTIES PendingShown FailedAreCleaned
CHECK_DEADLOCK FALSE
