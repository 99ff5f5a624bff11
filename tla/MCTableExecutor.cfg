CONSTANTS
    Client = {c}
    Id <- MCId
    Val = {u, v}
    PrefixOf <- MCPrefixOf
    NoValue = NoValue
    Number = {1, 2}
    Indexes = {{"id"}}
    Kinds = {"insert", "delete", "update", "rollback"}
    Capacity = 4
    MaxStatements = 4
    MaxUndo = 3
    MaxCrashes = 1
SYMMETRY Symmetry
SPECIFICATION Spec
INVARIANTS
    TypeOK
    InsertsAndDeletesAreLoggedAhead
    UndoRevivesTheLoggedRecord
    AckedInsertsAreOnDisk
PROPERTIES
    RollbackRestores
    
CHECK_DEADLOCK FALSE
