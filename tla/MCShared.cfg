SPECIFICATION MCSpec
CONSTANTS
    t1 = t1
    t2 = t2
    Tasks <- TwoTasks
    Regions <- TwoRegions
    Requests <- MixedRequests
    PtrSize = 1
    LongSize = 1
    BlockSize = 2
    Line = 4
    PuddleSize = 16
    MaxBlocks = 3
    None = None
    c1 = c1
    c2 = c2
    c3 = c3
    emmc = emmc
    genet = genet
    Claims <- ThreeClaims
    Names <- TwoNames
    Empty = Empty
    MayRetake = FALSE
    PinsOf <- MCPinsOf
    Settings <- MCSettings
    Idle = Idle
SYMMETRY Alike
INVARIANTS
    OwnsItsLines
    BookkeepingSurvives
    Conservation
    OneHolder
    NameTellsListed
    PinsKept
