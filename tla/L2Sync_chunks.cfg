SPECIFICATION Spec
CONSTANTS
    g = g
    a1 = a1
    a2 = a2
    a3 = a3
    b1 = b1
    b2 = b2
    b3 = b3
    w = w
    BlockId <- McBlockId
    Genesis <- McGenesis
    Parent <- McParent
    Number <- McNumber
    Anc <- McAnc
    Tx <- McTx
    Wd <- McWd
    TxsOf <- McTxsOf
    WdsOf <- McWdsOf
    NoBlock = NoBlock
    Multi = TRUE
    BatchSize = 2
    ChunkSize = 1
    CacheSize = 2
INVARIANTS RangesAreWhole

