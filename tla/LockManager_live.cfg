CONSTANTS
    Txn = {t1, t2, t3}
    Key = {k1}
    ReadOnly = {}
SPECIFICATION FairSpec
PROPERTIES
    StalledQueueMoves
    ImplementsService
