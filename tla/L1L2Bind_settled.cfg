SPECIFICATION BindFairSpec
CONSTANTS
    g = g
    a1 = a1
    a2 = a2
    a3 = a3
    a4 = a4
    a5 = a5
    b3 = b3
    b4 = b4
    w = w
    BlockId <- McBlockId
    Genesis = g
    Parent <- McParent
    Number <- McNumber
    Anc <- McAnc
    NoBlock = NoBlock
    Commits <- McCommits
    FinalOf <- McFinalOf
    Wd = {w}
    WdsAt <- McWdsAt
    WdNumber <- McWdNumber
    MaxL2 = 4
    InitNumber = 0
    BindBuffer = 1
    SyncBuffer = 0
    RangeSize = 2
    MaxReorg = 2
    MaxLag = 2
    Flaky = TRUE
    Dies = {"binder", "global"}
    Ahead = TRUE
INVARIANTS BindTypeOK BoundToCanonical FinalizedPrefix
PROPERTIES FinalityKept OnlyResetsUnbind
