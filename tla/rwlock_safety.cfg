CONSTANTS
    Proc = {p1, p2, p3}
    Lock = {l1}
    NoLock = NoLock
    MaxHeld = 2
    MaxSkewed = 1
SYMMETRY Symmetry
SPECIFICATION Spec
INVARIANTS MutualExclusion DestroyableIsUnused HoldoffBalanced FlagHasWaiter
CONSTRAINT SkewedInPairs
