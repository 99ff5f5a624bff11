CONSTANTS
    NumPages = 3
    PoolSize = 2
    MaxWrites = 1
    MaxPins = 1
SPECIFICATION Spec
INVARIANT EvictedPageIsOnDisk
CHECK_DEADLOCK FALSE
