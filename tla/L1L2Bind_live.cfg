SPECIFICATION BindFairSpec
CONSTANTS
    g = g
    a1 = a1
    a2 = a2
    a3 = a3
    a4 = a4
    a5 = a5
    b3 = b3
    b4 = b4
    w = w
    BlockId <- McLowBlockId
    Genesis = g
    Parent <- McLowParent
    Number <- McLowNumber
    Anc <- McLowAnc
    NoBlock = NoBlock
    Commits <- McLowCommits
    FinalOf <- McLowFinalOf
    Wd = {w}
    WdsAt <- McLowWdsAt
    WdNumber <- McWdNumber
    MaxL2 = 1
    InitNumber = 1
    BindBuffer = 1
    SyncBuffer = 1
    RangeSize = 1
    MaxReorg = 1
    MaxLag = 0
    Flaky = FALSE
    Dies = {"binder"}
    Ahead = TRUE
INVARIANTS SubmittedAreBound
PROPERTIES EventuallyBound EventuallyFinal
