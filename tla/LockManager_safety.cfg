CONSTANTS
    Txn = {t1, t2, t3}
    Key = {k1, k2}
    ReadOnly = {}
SPECIFICATION Spec
SYMMETRY Symmetry
INVARIANTS
    TypeOK
    Compatible
    NothingLeaks
    NoLostWakeup
    NoLostSignal
PROPERTIES
    StrictTwoPhase
    ServedInOrder
    DeadlockErrorJustified
