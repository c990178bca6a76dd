CONSTANTS
    Worker = {w1}
    Backend = {b1}
    Txn = {t1}
    NoTxn = NoTxn
    NoWorker = NoWorker
    MaxFaults = 3
SPECIFICATION FairSpec
PROPERTIES InDoubtIsResolved RecordIsReclaimed TransactionEnds
