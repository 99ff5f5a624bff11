CONSTANTS
    PageSize = 11
    HeaderSize = 2
    SlotSize = 2
    Byte = {"x", "y"}
    MaxLength = 2
SPECIFICATION CompactingSpec
INVARIANTS
    TypeOK
    LayoutOK
PROPERTIES
    RefinesRecordStore
CHECK_DEADLOCK FALSE
