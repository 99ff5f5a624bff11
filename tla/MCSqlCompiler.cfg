SPECIFICATION Spec
CONSTANTS
    NumberOf <- MCNumberOf
    TableNames = {"t"}
    Indexed = {"id"}
    Statement <- MCStatement
    Correction <- MCCorrection
    Session <- MCSession
    MaxCorrections = 1
INVARIANTS
    TypeOK
    AnswersAreRight
    ChangesAreRight
    ConstraintsReachTheTable
CHECK_DEADLOCK FALSE
