SPECIFICATION L1SettledFairSpec
CONSTANTS
    g = g
    a1 = a1
    a2 = a2
    a3 = a3
    b1 = b1
    b2 = b2
    b3 = b3
    d1 = d1
    d2 = d2
    d3 = d3
    A = A
    B = B
    c2 = c2
    c3 = c3
    c4 = c4
    w = w
    BlockId <- McForkBlockId
    Genesis = g
    Parent <- McForkParent
    Number <- McForkNumber
    Anc <- McForkAnc
    NoBlock = NoBlock
    Dep <- McDep
    DepsOf <- McForkDepsOf
    Acct = {A, B}
    Owner <- McOwner
    Wh = {w}
    WhsOf <- McForkWhsOf
    InitNumber = 1
    Buffer = 0
    MultiL1 = FALSE
    BatchL1 = 1
    MapKeys = 32
    Retention = 2
    MaxReorg = 2
    Dies = FALSE
INVARIANTS HistoriesExact DepositorsHaveAccounts ForkResolved
PROPERTIES L1CatchesUp
