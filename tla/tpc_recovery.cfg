CONSTANTS
    Worker = {w1, w2}
    Backend = {b1}
    Txn = {t1}
    NoTxn = NoTxn
    NoWorker = NoWorker
    MaxFaults = 2
SYMMETRY Symmetry
SPECIFICATION Spec
INVARIANTS AtomicCommit InDoubtHasRecord
PROPERTY FateIsFinal
