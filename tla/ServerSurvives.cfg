CONSTANTS
    Client = {c}
    Id <- MCId
    Val = {u}
    PrefixOf <- MCPrefixOf
    NoValue = NoValue
    Number = {1, 2, 10}
    Indexes = {}
    Kinds = {"insert", "rollback"}
    Capacity = 4
    MaxStatements = 3
    MaxUndo = 2
    MaxCrashes = 1
SPECIFICATION Spec
INVARIANT ServerSurvives
CHECK_DEADLOCK FALSE
