CONSTANTS
    Tx = {t1, t2, t3}
    Obj = {a, b}
    NoTx = NoTx
SYMMETRY Symmetry
SPECIFICATION Spec
INVARIANTS
    TypeOK
    Exclusion
    FirstInLineIsExcluded
PROPERTY NoLockStolen
CHECK_DEADLOCK FALSE
