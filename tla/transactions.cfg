CONSTANTS
    d1 = d1
    d2 = d2
    k1 = k1
    k2 = k2
    w1 = w1
    w2 = w2
    Devices = {d1, d2}
    Keys = {k1}
    MaxFid = 3
    Legacy = 1
    Workers = {w1, w2}
SPECIFICATION FairTxSpec
INVARIANTS
    TxTypeOK
    ReplaceMeetsNoRow
PROPERTIES
    TransactionsAreAtomic
    TasksMatchRows
    TransactionsEnd
