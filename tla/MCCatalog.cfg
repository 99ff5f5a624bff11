SPECIFICATION Spec
CONSTANTS
    Client = {c1, c2}
    Database = {sys, db}
    SystemData = sys
    TableName = {t1, t2}
    a = a
    b = b
    ColumnName = {a, b}
    Width <- MCWidth
    Definition <- MCDefinition
    MaxColumns = 2
    DefaultSetting = dflt
    NewSetting = changed
    Kinds = {"create_database", "drop_database", "use", "show", "create_table",
             "drop_table", "add_column", "drop_column", "statistics", "configure"}
    MaxStatements = 3
    MaxOverlapping = 2
    MaxSessions = 2
    MaxKills = 1
    None = none
SYMMETRY Symmetry
INVARIANTS
    TypeOK
    IdsAreUnique
    IndexesHaveTheirTable
    StorageIsDisjoint
    IndexesListTheirColumns
    SerialSessionsLoseNothing
CHECK_DEADLOCK FALSE
