CONSTANTS
    NumPages = 3
    PoolSize = 2
    MaxWrites = 1
    MaxPins = 2
SPECIFICATION Spec
INVARIANTS
    TypeOK
    PageTableMatchesFrames
    UnpinnedIsEvictable
    NoWriteLost
PROPERTY PinnedPageStays
CHECK_DEADLOCK FALSE
