CONSTANTS
    Proc = {p1, p2, p3}
    Lock = {l1}
    NoLock = NoLock
    MaxHeld = 1
    MaxSkewed = 0
SPECIFICATION FairCallers
PROPERTY WriterEnters
