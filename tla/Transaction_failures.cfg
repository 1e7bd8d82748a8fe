CONSTANTS
    Txn = {t1, t2}
    ReadOnly = {t2}
    Key = {1, 2}
    Row = {a, big}
    NoRow = NoRow
    NotRead = NotRead
    Unstorable = {big}
    Scans = TRUE
    MaxOps = 2
SPECIFICATION Spec
INVARIANTS
    ReadsLocked
    
CHECK_DEADLOCK FALSE
