\* Balances of tokens of three types through a fork and a death.
SPECIFICATION FairSpec
CONSTANTS
    g = g
    a1 = a1
    b1 = b1
    b2 = b2
    burn = burn
    h = h
    f = f
    n = n
    m = m
    BlockId <- McBlockId
    Genesis = g
    Parent <- McParent
    Number <- McNumber
    Anc <- McAnc
    NoBlock = NoBlock
    Address = {burn, h}
    Token = {f, n, m}
    Erc721 = {n}
    Burn = burn
    TokenId = {1}
    NoId = NoId
    TransfersOf <- McTransfersOf
    Bal <- McBal
    NoRow = NoRow
    Unfetched = Unfetched
    MaxDeaths = 1
INVARIANTS TypeOK CurrentIsNewest CurrentIsRight OwnerIsRight
PROPERTIES RowsAreFetched
CHECK_DEADLOCK FALSE
