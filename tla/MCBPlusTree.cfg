CONSTANTS
    Client = {c}
    Index = {i}
    Entry <- MCEntry
    Degree = 3
    MaxPages = 8
    MaxRemovals = 2
SPECIFICATION FairSpec
INVARIANTS
    TypeOK
    RangeIsSearches
    Balanced
PROPERTIES
    RefinesMultimap
    EveryCallReturns
CHECK_DEADLOCK FALSE
