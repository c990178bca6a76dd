CONSTANTS
    Worker = {w1, w2}
    Backend = {b1}
    Txn = {t1, t2}
    NoTxn = NoTxn
    NoWorker = NoWorker
    MaxFaults = 1
SYMMETRY Symmetry
SPECIFICATION Spec
INVARIANTS EveryTransactionIsAtomic
