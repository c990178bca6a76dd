CONSTANTS
    c1 = c1
    c2 = c2
    Caller = {c1, c2}
    NoOne = NoOne
    QUEUE_SIZE = 2
    BlockSize = 2
    PoolCapacity = 2
    Sizes = {0, 5}
    ReadSizes = {3}
    Budgets <- SomeBudgets
SPECIFICATION FairSpec
INVARIANTS ReadsInOrder ShortReadIsEnd ReadsAfterWrite MemoryReturned
PROPERTY CloseReturns
CHECK_DEADLOCK FALSE
