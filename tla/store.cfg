SPECIFICATION Spec
CONSTANTS
    w1 = w1
    w2 = w2
    s1 = s1
    s2 = s2
    l1 = l1
    l2 = l2
    c1 = c1
    c2 = c2
    d1 = d1
    f1 = f1
    f2 = f2
    t1 = t1
    t2 = t2
    NoInst = NoInst
    Inst = {w1, w2, s1, s2, l1, l2, c1, c2, d1}
    Thread = {t1, t2}
    File = {f1, f2}
    inode = f1
    Remote <- MCRemote
    Writer <- MCWriter
    Creator <- MCCreator
    Large <- MCLarge
    Small <- MCSmall
    Deleter <- MCDeleter
    Scenario <- Safe
    Size = 1
    FreeTarget = 0
    BgUse = 1
    Wrap = 16
    MaxFaults = 1
SYMMETRY Threads
CHECK_DEADLOCK FALSE
INVARIANTS
    SpaceAccounted
    WaiterIsWoken
    
    
    ClosedIsClosed
    ReadsWhole

    
