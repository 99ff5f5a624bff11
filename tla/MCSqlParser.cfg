CONSTANTS
    Parsed <- MCParsed
    BufferSize = 256
    MaxAmount = 24
SPECIFICATION Spec
INVARIANTS
    TypeOK
    AcceptsTheSentences
PROPERTIES
    ParsingEnds
CHECK_DEADLOCK FALSE
