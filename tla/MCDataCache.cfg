CONSTANTS
    PageSize = 3
    Segments = 2
    MaxPages = 1
    MaxWrite = 4
    MaxTick = 0
    Stale = Stale
    None = None

SPECIFICATION MCSpec

INVARIANTS
    DCTypeOK
    PagesAreExclusive
    RangesApart
    EnforceRangeIsUnion
    ShowsLatest
    ReadGivesAllItHas
    ManyPagesOK

PROPERTY
    ImplementsFileCache
