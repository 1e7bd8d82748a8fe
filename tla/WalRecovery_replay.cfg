CONSTANTS
    Page = {0, 1}
    Image = {a, b}
    Blank = Blank
    Txn = {t1, t2}
    NoTxn = NoTxn
    NoRoot = NoRoot
    MaxLog = 4
    MaxCrashes = 1
SPECIFICATION Spec
INVARIANTS
    Recovers
PROPERTY TruncatedWhenDurable
CHECK_DEADLOCK FALSE
