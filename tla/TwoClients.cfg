CONSTANTS
    Client = {c, d}
    Id <- MCId
    Val = {u}
    PrefixOf <- MCPrefixOf
    NoValue = NoValue
    Number = {1, 2, 10}
    Indexes = {}
    Kinds = {"insert"}
    Capacity = 4
    MaxStatements = 3
    MaxUndo = 2
    MaxCrashes = 0
SPECIFICATION Spec
INVARIANT AckedInsertsAreOnDisk
CHECK_DEADLOCK FALSE
