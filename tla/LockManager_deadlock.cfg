CONSTANTS
    Txn = {t1, t2, t3}
    Key = {k1, k2}
    ReadOnly = {}
SPECIFICATION Spec
INVARIANT NoUndetectedDeadlock
