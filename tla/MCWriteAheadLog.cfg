CONSTANTS
    Client = {c1, c2}
    BufferCapacity = 3
    MaxOperations = 3
    MaxCrashes = 1
SYMMETRY Symmetry
SPECIFICATION Spec
INVARIANTS
    TypeOK
    CommittedIsLogged
    NewestFirst
PROPERTY ReadableLogOnlyGrows
CHECK_DEADLOCK FALSE
