CONSTANTS
    m1 = m1
    m2 = m2
    m3 = m3
    q1 = q1
    Job = {m1, m2, m3, q1}
    BatchType = {"MKDIR"}
    Type <- MCType
    Count <- MCCount
    Conn = {c1}
    PendingMax = 1
    BatchMax = 2
    ShmemBlocks = 2
SPECIFICATION FairSpec
CHECK_DEADLOCK FALSE
INVARIANTS AnsweredOwn NothingDangles ShmemAccounted
 
