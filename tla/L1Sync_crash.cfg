SPECIFICATION L1FairSpec
CONSTANTS
    g = g
    a1 = a1
    a2 = a2
    a3 = a3
    b1 = b1
    b2 = b2
    b3 = b3
    d1 = d1
    d2 = d2
    d3 = d3
    A = A
    B = B
    w = w
    BlockId <- McBlockId
    Genesis = g
    Parent <- McParent
    Number <- McNumber
    Anc <- McAnc
    NoBlock = NoBlock
    Dep <- McDep
    DepsOf <- McDepsOf
    Acct = {A, B}
    Owner <- McOwner
    Wh = {w}
    WhsOf <- McWhsOf
    InitNumber = 1
    Buffer = 0
    MultiL1 = FALSE
    BatchL1 = 1
    MapKeys = 32
    Retention = 1
    Dies = TRUE
INVARIANTS L1TypeOK HistoryFollowsChain HistoriesComplete
