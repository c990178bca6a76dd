CONSTANTS
  w1 = w1
  w2 = w2
  Proc = {p1, p2}
  Worker = {w1, w2}
  CN = cn
  Name = {1, 2}
  Depth = 2
  MaxInode = 8
  Home <- MCHome
  Start <- MCStart
SPECIFICATION Spec
SYMMETRY Symmetry
INVARIANTS ReplicasAgree PathStable TablesAgree NoDeadlock
PROPERTY ImplementsTree
CHECK_DEADLOCK FALSE
