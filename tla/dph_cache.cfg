CONSTANTS
    k1 = k1
    k2 = k2
    Session = {s1, s2}
    Key = {k1, k2}
    NoKey = NoKey
    MaxInode = 3
    Partition <- RoomyOrCrowded
SPECIFICATION Spec
SYMMETRY Sym
INVARIANTS Coherent LockedSearchIsFresh LockedEntryStays CountIsExact
CHECK_DEADLOCK FALSE
